---- MODULE Spec2Model ----
(***************************************************************************)
(* Model of mercuryitc/mercury_driver.py: the cached-property engine       *)
(* (CachedPropertyContainer), the module classes, and the MercuryITC root  *)
(* with its class-level RLock, its VISA session and its module discovery.  *)
(*                                                                         *)
(* Strings are sequences of one-character strings, so that str.split,      *)
(* str.count, float() and the '%f' formatting are computed, not assumed.   *)
(* A Python float is held as a sign, decimal digits and the point's place.  *)
(***************************************************************************)
EXTENDS Integers, Sequences, FiniteSets, TLC

(* ------------------------------------------------------------------ *)
(* Bounds of the exploration                                            *)
(* ------------------------------------------------------------------ *)
\* number of client threads calling into the driver
NThreads == 2
\* operations (property accesses, connect, disconnect, raw write/read) started in a run
MaxOps == 3
Threads == 1..NThreads

(* ------------------------------------------------------------------ *)
(* Text                                                                 *)
(* ------------------------------------------------------------------ *)
sSYS == <<"S","Y","S">>
sREAD == <<"R","E","A","D">>
sSET == <<"S","E","T">>
sSTAT == <<"S","T","A","T">>
sVALID == <<"V","A","L","I","D">>
sINVALID == <<"I","N","V","A","L","I","D">>
sDEVsep == <<":","D","E","V",":">>
sDEVpre == <<"D","E","V",":">>
sTEMP == <<"T","E","M","P">>
sAUX == <<"A","U","X">>
sHTR == <<"H","T","R">>
sNone == <<"N","o","n","e">>
sON == <<"O","N">>
sOFF == <<"O","F","F">>
sNA == <<"N","/","A">>
sAU == <<"a",".","u",".">>
Colon == <<":">>
DigitChars == <<"0","1","2","3","4","5","6","7","8","9">>

Range(s) == {s[i] : i \in 1..Len(s)}

Last(s) == s[Len(s)]

\* x in '0123456789'
IsDigit(c) == c \in Range(DigitChars)

\* A character up to U+00FF stands for itself in a text of the model. A
\* character beyond is written by its code point, as "U+0663" (upper-case
\* hexadecimal, four digits or five); so are, as a second spelling, the three
\* whitespace characters of Latin-1 that do not print: "U+000B", "U+0085",
\* "U+00A0".
\*
\* The decimal digits beyond ASCII (general category Nd of Unicode 14.0, the
\* table of the interpreter's unicodedata), script after script, the ten
\* digits of each from its zero to its nine
UnicodeDigits ==
  <<
     "U+0660", "U+0661", "U+0662", "U+0663", "U+0664",
       "U+0665", "U+0666", "U+0667", "U+0668", "U+0669",
     "U+06F0", "U+06F1", "U+06F2", "U+06F3", "U+06F4",
       "U+06F5", "U+06F6", "U+06F7", "U+06F8", "U+06F9",
     "U+07C0", "U+07C1", "U+07C2", "U+07C3", "U+07C4",
       "U+07C5", "U+07C6", "U+07C7", "U+07C8", "U+07C9",
     "U+0966", "U+0967", "U+0968", "U+0969", "U+096A",
       "U+096B", "U+096C", "U+096D", "U+096E", "U+096F",
     "U+09E6", "U+09E7", "U+09E8", "U+09E9", "U+09EA",
       "U+09EB", "U+09EC", "U+09ED", "U+09EE", "U+09EF",
     "U+0A66", "U+0A67", "U+0A68", "U+0A69", "U+0A6A",
       "U+0A6B", "U+0A6C", "U+0A6D", "U+0A6E", "U+0A6F",
     "U+0AE6", "U+0AE7", "U+0AE8", "U+0AE9", "U+0AEA",
       "U+0AEB", "U+0AEC", "U+0AED", "U+0AEE", "U+0AEF",
     "U+0B66", "U+0B67", "U+0B68", "U+0B69", "U+0B6A",
       "U+0B6B", "U+0B6C", "U+0B6D", "U+0B6E", "U+0B6F",
     "U+0BE6", "U+0BE7", "U+0BE8", "U+0BE9", "U+0BEA",
       "U+0BEB", "U+0BEC", "U+0BED", "U+0BEE", "U+0BEF",
     "U+0C66", "U+0C67", "U+0C68", "U+0C69", "U+0C6A",
       "U+0C6B", "U+0C6C", "U+0C6D", "U+0C6E", "U+0C6F",
     "U+0CE6", "U+0CE7", "U+0CE8", "U+0CE9", "U+0CEA",
       "U+0CEB", "U+0CEC", "U+0CED", "U+0CEE", "U+0CEF",
     "U+0D66", "U+0D67", "U+0D68", "U+0D69", "U+0D6A",
       "U+0D6B", "U+0D6C", "U+0D6D", "U+0D6E", "U+0D6F",
     "U+0DE6", "U+0DE7", "U+0DE8", "U+0DE9", "U+0DEA",
       "U+0DEB", "U+0DEC", "U+0DED", "U+0DEE", "U+0DEF",
     "U+0E50", "U+0E51", "U+0E52", "U+0E53", "U+0E54",
       "U+0E55", "U+0E56", "U+0E57", "U+0E58", "U+0E59",
     "U+0ED0", "U+0ED1", "U+0ED2", "U+0ED3", "U+0ED4",
       "U+0ED5", "U+0ED6", "U+0ED7", "U+0ED8", "U+0ED9",
     "U+0F20", "U+0F21", "U+0F22", "U+0F23", "U+0F24",
       "U+0F25", "U+0F26", "U+0F27", "U+0F28", "U+0F29",
     "U+1040", "U+1041", "U+1042", "U+1043", "U+1044",
       "U+1045", "U+1046", "U+1047", "U+1048", "U+1049",
     "U+1090", "U+1091", "U+1092", "U+1093", "U+1094",
       "U+1095", "U+1096", "U+1097", "U+1098", "U+1099",
     "U+17E0", "U+17E1", "U+17E2", "U+17E3", "U+17E4",
       "U+17E5", "U+17E6", "U+17E7", "U+17E8", "U+17E9",
     "U+1810", "U+1811", "U+1812", "U+1813", "U+1814",
       "U+1815", "U+1816", "U+1817", "U+1818", "U+1819",
     "U+1946", "U+1947", "U+1948", "U+1949", "U+194A",
       "U+194B", "U+194C", "U+194D", "U+194E", "U+194F",
     "U+19D0", "U+19D1", "U+19D2", "U+19D3", "U+19D4",
       "U+19D5", "U+19D6", "U+19D7", "U+19D8", "U+19D9",
     "U+1A80", "U+1A81", "U+1A82", "U+1A83", "U+1A84",
       "U+1A85", "U+1A86", "U+1A87", "U+1A88", "U+1A89",
     "U+1A90", "U+1A91", "U+1A92", "U+1A93", "U+1A94",
       "U+1A95", "U+1A96", "U+1A97", "U+1A98", "U+1A99",
     "U+1B50", "U+1B51", "U+1B52", "U+1B53", "U+1B54",
       "U+1B55", "U+1B56", "U+1B57", "U+1B58", "U+1B59",
     "U+1BB0", "U+1BB1", "U+1BB2", "U+1BB3", "U+1BB4",
       "U+1BB5", "U+1BB6", "U+1BB7", "U+1BB8", "U+1BB9",
     "U+1C40", "U+1C41", "U+1C42", "U+1C43", "U+1C44",
       "U+1C45", "U+1C46", "U+1C47", "U+1C48", "U+1C49",
     "U+1C50", "U+1C51", "U+1C52", "U+1C53", "U+1C54",
       "U+1C55", "U+1C56", "U+1C57", "U+1C58", "U+1C59",
     "U+A620", "U+A621", "U+A622", "U+A623", "U+A624",
       "U+A625", "U+A626", "U+A627", "U+A628", "U+A629",
     "U+A8D0", "U+A8D1", "U+A8D2", "U+A8D3", "U+A8D4",
       "U+A8D5", "U+A8D6", "U+A8D7", "U+A8D8", "U+A8D9",
     "U+A900", "U+A901", "U+A902", "U+A903", "U+A904",
       "U+A905", "U+A906", "U+A907", "U+A908", "U+A909",
     "U+A9D0", "U+A9D1", "U+A9D2", "U+A9D3", "U+A9D4",
       "U+A9D5", "U+A9D6", "U+A9D7", "U+A9D8", "U+A9D9",
     "U+A9F0", "U+A9F1", "U+A9F2", "U+A9F3", "U+A9F4",
       "U+A9F5", "U+A9F6", "U+A9F7", "U+A9F8", "U+A9F9",
     "U+AA50", "U+AA51", "U+AA52", "U+AA53", "U+AA54",
       "U+AA55", "U+AA56", "U+AA57", "U+AA58", "U+AA59",
     "U+ABF0", "U+ABF1", "U+ABF2", "U+ABF3", "U+ABF4",
       "U+ABF5", "U+ABF6", "U+ABF7", "U+ABF8", "U+ABF9",
     "U+FF10", "U+FF11", "U+FF12", "U+FF13", "U+FF14",
       "U+FF15", "U+FF16", "U+FF17", "U+FF18", "U+FF19",
     "U+104A0", "U+104A1", "U+104A2", "U+104A3", "U+104A4",
       "U+104A5", "U+104A6", "U+104A7", "U+104A8", "U+104A9",
     "U+10D30", "U+10D31", "U+10D32", "U+10D33", "U+10D34",
       "U+10D35", "U+10D36", "U+10D37", "U+10D38", "U+10D39",
     "U+11066", "U+11067", "U+11068", "U+11069", "U+1106A",
       "U+1106B", "U+1106C", "U+1106D", "U+1106E", "U+1106F",
     "U+110F0", "U+110F1", "U+110F2", "U+110F3", "U+110F4",
       "U+110F5", "U+110F6", "U+110F7", "U+110F8", "U+110F9",
     "U+11136", "U+11137", "U+11138", "U+11139", "U+1113A",
       "U+1113B", "U+1113C", "U+1113D", "U+1113E", "U+1113F",
     "U+111D0", "U+111D1", "U+111D2", "U+111D3", "U+111D4",
       "U+111D5", "U+111D6", "U+111D7", "U+111D8", "U+111D9",
     "U+112F0", "U+112F1", "U+112F2", "U+112F3", "U+112F4",
       "U+112F5", "U+112F6", "U+112F7", "U+112F8", "U+112F9",
     "U+11450", "U+11451", "U+11452", "U+11453", "U+11454",
       "U+11455", "U+11456", "U+11457", "U+11458", "U+11459",
     "U+114D0", "U+114D1", "U+114D2", "U+114D3", "U+114D4",
       "U+114D5", "U+114D6", "U+114D7", "U+114D8", "U+114D9",
     "U+11650", "U+11651", "U+11652", "U+11653", "U+11654",
       "U+11655", "U+11656", "U+11657", "U+11658", "U+11659",
     "U+116C0", "U+116C1", "U+116C2", "U+116C3", "U+116C4",
       "U+116C5", "U+116C6", "U+116C7", "U+116C8", "U+116C9",
     "U+11730", "U+11731", "U+11732", "U+11733", "U+11734",
       "U+11735", "U+11736", "U+11737", "U+11738", "U+11739",
     "U+118E0", "U+118E1", "U+118E2", "U+118E3", "U+118E4",
       "U+118E5", "U+118E6", "U+118E7", "U+118E8", "U+118E9",
     "U+11950", "U+11951", "U+11952", "U+11953", "U+11954",
       "U+11955", "U+11956", "U+11957", "U+11958", "U+11959",
     "U+11C50", "U+11C51", "U+11C52", "U+11C53", "U+11C54",
       "U+11C55", "U+11C56", "U+11C57", "U+11C58", "U+11C59",
     "U+11D50", "U+11D51", "U+11D52", "U+11D53", "U+11D54",
       "U+11D55", "U+11D56", "U+11D57", "U+11D58", "U+11D59",
     "U+11DA0", "U+11DA1", "U+11DA2", "U+11DA3", "U+11DA4",
       "U+11DA5", "U+11DA6", "U+11DA7", "U+11DA8", "U+11DA9",
     "U+16A60", "U+16A61", "U+16A62", "U+16A63", "U+16A64",
       "U+16A65", "U+16A66", "U+16A67", "U+16A68", "U+16A69",
     "U+16AC0", "U+16AC1", "U+16AC2", "U+16AC3", "U+16AC4",
       "U+16AC5", "U+16AC6", "U+16AC7", "U+16AC8", "U+16AC9",
     "U+16B50", "U+16B51", "U+16B52", "U+16B53", "U+16B54",
       "U+16B55", "U+16B56", "U+16B57", "U+16B58", "U+16B59",
     "U+1D7CE", "U+1D7CF", "U+1D7D0", "U+1D7D1", "U+1D7D2",
       "U+1D7D3", "U+1D7D4", "U+1D7D5", "U+1D7D6", "U+1D7D7",
     "U+1D7D8", "U+1D7D9", "U+1D7DA", "U+1D7DB", "U+1D7DC",
       "U+1D7DD", "U+1D7DE", "U+1D7DF", "U+1D7E0", "U+1D7E1",
     "U+1D7E2", "U+1D7E3", "U+1D7E4", "U+1D7E5", "U+1D7E6",
       "U+1D7E7", "U+1D7E8", "U+1D7E9", "U+1D7EA", "U+1D7EB",
     "U+1D7EC", "U+1D7ED", "U+1D7EE", "U+1D7EF", "U+1D7F0",
       "U+1D7F1", "U+1D7F2", "U+1D7F3", "U+1D7F4", "U+1D7F5",
     "U+1D7F6", "U+1D7F7", "U+1D7F8", "U+1D7F9", "U+1D7FA",
       "U+1D7FB", "U+1D7FC", "U+1D7FD", "U+1D7FE", "U+1D7FF",
     "U+1E140", "U+1E141", "U+1E142", "U+1E143", "U+1E144",
       "U+1E145", "U+1E146", "U+1E147", "U+1E148", "U+1E149",
     "U+1E2F0", "U+1E2F1", "U+1E2F2", "U+1E2F3", "U+1E2F4",
       "U+1E2F5", "U+1E2F6", "U+1E2F7", "U+1E2F8", "U+1E2F9",
     "U+1E950", "U+1E951", "U+1E952", "U+1E953", "U+1E954",
       "U+1E955", "U+1E956", "U+1E957", "U+1E958", "U+1E959",
     "U+1FBF0", "U+1FBF1", "U+1FBF2", "U+1FBF3", "U+1FBF4",
       "U+1FBF5", "U+1FBF6", "U+1FBF7", "U+1FBF8", "U+1FBF9"
  >>

\* the characters float() and int() read as a decimal digit
Decimals == Range(DigitChars) \cup Range(UnicodeDigits)

IsDecimal(c) == c \in Decimals

\* the digit a decimal character stands for
DigitVal(c) ==
    IF IsDigit(c) THEN CHOOSE d \in 0..9 : DigitChars[d + 1] = c
    ELSE ((CHOOSE k \in DOMAIN UnicodeDigits : UnicodeDigits[k] = c) - 1) % 10

\* s[i..] starts with sep
StartsAt(s, sep, i) ==
    /\ i + Len(sep) - 1 <= Len(s)
    /\ SubSeq(s, i, i + Len(sep) - 1) = sep

RECURSIVE SplitFrom(_, _, _, _, _)
SplitFrom(s, sep, maxsplit, i, start) ==
    IF maxsplit = 0 \/ i + Len(sep) - 1 > Len(s)
    THEN << SubSeq(s, start, Len(s)) >>
    ELSE IF StartsAt(s, sep, i)
         THEN << SubSeq(s, start, i - 1) >>
              \o SplitFrom(s, sep, maxsplit - 1, i + Len(sep), i + Len(sep))
         ELSE SplitFrom(s, sep, maxsplit, i + 1, start)

\* str.split(sep, maxsplit) for a non-empty sep; a negative maxsplit is no limit
split(s, sep, maxsplit) == SplitFrom(s, sep, maxsplit, 1, 1)

\* str.count(c) for a one-character c
count(s, c) == Cardinality({i \in 1..Len(s) : s[i] = c})

RECURSIVE join(_, _)
\* sep.join(parts)
join(sep, parts) ==
    IF parts = <<>> THEN <<>>
    ELSE IF Len(parts) = 1 THEN parts[1]
    ELSE parts[1] \o sep \o join(sep, Tail(parts))

RECURSIVE NatToStr(_)
NatToStr(n) ==
    IF n < 10 THEN << DigitChars[n + 1] >>
    ELSE NatToStr(n \div 10) \o << DigitChars[(n % 10) + 1] >>

RECURSIVE StrToNat(_)
StrToNat(s) ==
    IF s = <<>> THEN 0
    ELSE 10 * StrToNat(SubSeq(s, 1, Len(s) - 1)) + DigitVal(Last(s))

Abs(x) == IF x < 0 THEN -x ELSE x

\* s.zfill(width): zeros after the sign, if any, up to the width
zfill(s, width) ==
    IF Len(s) >= width THEN s
    ELSE IF s # <<>> /\ s[1] \in {"-", "+"}
         THEN << s[1] >> \o [i \in 1..(width - Len(s)) |-> "0"] \o Tail(s)
         ELSE [i \in 1..(width - Len(s)) |-> "0"] \o s

\* '%i' % value
FormatI(v) == (IF v < 0 THEN <<"-">> ELSE <<>>) \o NatToStr(Abs(v))

(* ------------------------------------------------------------------ *)
(* Floats                                                               *)
(* ------------------------------------------------------------------ *)
\* A Python float is [k, neg, ds, p]: k is "num", "inf" or "nan"; a number is
\* 0.d1d2...dn * 10^p with digits ds = <<d1, ..., dn>>, d1 and dn not 0 (zero
\* has no digits).  It stands for the double nearest to that decimal.
Inf(neg) == [k |-> "inf", neg |-> neg, ds |-> <<>>, p |-> 0]

NaN == [k |-> "nan", neg |-> FALSE, ds |-> <<>>, p |-> 0]

Zero(neg) == [k |-> "num", neg |-> neg, ds |-> <<>>, p |-> 0]

RECURSIVE DigLt(_, _)
\* 0.a < 0.b for digit sequences
DigLt(a, b) ==
    IF b = <<>> THEN FALSE
    ELSE IF a = <<>> THEN \E i \in 1..Len(b) : b[i] # 0
    ELSE IF a[1] # b[1] THEN a[1] < b[1]
    ELSE DigLt(Tail(a), Tail(b))

RECURSIVE Trim(_, _, _)
\* sign, digits and point position, without leading and trailing zeros
Trim(neg, ds, p) ==
    IF ds = <<>> THEN Zero(neg)
    ELSE IF ds[1] = 0 THEN Trim(neg, Tail(ds), p - 1)
    ELSE IF Last(ds) = 0 THEN Trim(neg, SubSeq(ds, 1, Len(ds) - 1), p)
    ELSE [k |-> "num", neg |-> neg, ds |-> ds, p |-> p]

MagLt(a, b) ==
    IF a.k = "inf" THEN FALSE
    ELSE IF b.k = "inf" THEN TRUE
    ELSE IF b.ds = <<>> THEN FALSE
    ELSE IF a.ds = <<>> THEN TRUE
    ELSE a.p < b.p \/ (a.p = b.p /\ DigLt(a.ds, b.ds))

IsZero(a) == a.k = "num" /\ a.ds = <<>>

\* a < b; every comparison with nan is False
FloatLt(a, b) ==
    /\ a.k # "nan"
    /\ b.k # "nan"
    /\ IF IsZero(a) /\ IsZero(b) THEN FALSE
       ELSE IF a.neg # b.neg THEN a.neg
       ELSE IF a.neg THEN MagLt(b, a) ELSE MagLt(a, b)

\* a <= b
FloatLeq(a, b) == a.k # "nan" /\ b.k # "nan" /\ ~FloatLt(b, a)

\* the digit of ds at index k, 0 outside it
DigitAt(ds, k) == IF 1 <= k /\ k <= Len(ds) THEN ds[k] ELSE 0

RECURSIVE Increment(_)
\* the digit sequence plus one in its last place
Increment(ds) ==
    IF ds = <<>> THEN << 1 >>
    ELSE IF Last(ds) < 9 THEN Append(SubSeq(ds, 1, Len(ds) - 1), Last(ds) + 1)
    ELSE Append(Increment(SubSeq(ds, 1, Len(ds) - 1)), 0)

DigitsText(ds) == [i \in 1..Len(ds) |-> DigitChars[ds[i] + 1]]

\* the digits of a number rounded to `places` decimals: those before the point
\* (at least one) followed by those after it; a tie goes to the even digit
Rounded(v, places) ==
    LET n0 == IF v.p > 0 THEN v.p ELSE 0
        shift == IF v.p > 0 THEN 0 ELSE v.p
        kept == [i \in 1..(n0 + places) |-> DigitAt(v.ds, i + shift)]
        next == DigitAt(v.ds, v.p + places + 1)
        more == v.p + places + 1 < Len(v.ds)
        up == v.p + places + 1 >= 1
              /\ (next > 5 \/ (next = 5 /\ (more \/ (kept # <<>> /\ Last(kept) % 2 = 1))))
        r == IF up THEN Increment(kept) ELSE kept
    IN  IF Len(r) = places THEN << 0 >> \o r ELSE r

RECURSIVE DigitsOf(_)
DigitsOf(n) == IF n < 10 THEN << n >> ELSE Append(DigitsOf(n \div 10), n % 10)

RECURSIVE Value(_)
\* the number a short digit sequence writes
Value(ds) == IF ds = <<>> THEN 0 ELSE 10 * Value(SubSeq(ds, 1, Len(ds) - 1)) + Last(ds)

RECURSIVE MulCarry(_, _, _)
\* the digits of D * k + c, for small k and c: the Len(D) last ones, preceded by
\* the digits of what is carried out of them.  The lower half is done first,
\* and its carry goes into the upper half.
MulJoin(D, k, h, lo) ==
    IF Len(lo) = Len(D) - h THEN MulCarry(SubSeq(D, 1, h), k, 0) \o lo
    ELSE MulCarry(SubSeq(D, 1, h), k, Value(SubSeq(lo, 1, Len(lo) - (Len(D) - h))))
         \o SubSeq(lo, Len(lo) - (Len(D) - h) + 1, Len(lo))

MulCarry(D, k, c) ==
    IF D = <<>> THEN (IF c = 0 THEN <<>> ELSE DigitsOf(c))
    ELSE IF Len(D) = 1
    THEN (IF (D[1] * k + c) \div 10 = 0 THEN <<>> ELSE DigitsOf((D[1] * k + c) \div 10))
         \o << (D[1] * k + c) % 10 >>
    ELSE MulJoin(D, k, Len(D) \div 2, MulCarry(SubSeq(D, (Len(D) \div 2) + 1, Len(D)), k, c))

\* v * 2^j and v / 2^j (as v * 5^j / 10^j), exactly, for j up to 27 and 11
Times2(v, j) ==
    Trim(v.neg, MulCarry(v.ds, 2^j, 0), v.p + Len(MulCarry(v.ds, 2^j, 0)) - Len(v.ds))

Halved(v, j) ==
    Trim(v.neg, MulCarry(v.ds, 5^j, 0), v.p + Len(MulCarry(v.ds, 5^j, 0)) - Len(v.ds) - j)

RECURSIVE Scale(_, _)
\* v * 2^b
Scale(v, b) ==
    IF b = 0 \/ v.ds = <<>> THEN v
    ELSE IF 0 < b /\ b <= 27 THEN Times2(v, b)
    ELSE IF -11 <= b /\ b < 0 THEN Halved(v, -b)
    ELSE Scale(Scale(v, b \div 2), b - (b \div 2))

Pow52 == [k |-> "num", neg |-> FALSE, ds |-> <<4,5,0,3,5,9,9,6,2,7,3,7,0,4,9,6>>, p |-> 16]
Pow53 == [k |-> "num", neg |-> FALSE, ds |-> <<9,0,0,7,1,9,9,2,5,4,7,4,0,9,9,2>>, p |-> 16]

RECURSIVE Binary(_, _)
\* x is v / 2^e: the 53-bit significand nearest to x once 2^52 <= x < 2^53 (or e
\* has reached -1074, the exponent of the subnormals), times 2^e
Binary(x, e) ==
    IF MagLt(x, Pow52) /\ e - 1 >= -1074 THEN Binary(Times2(x, 1), e - 1)
    ELSE IF ~MagLt(x, Pow53) THEN Binary(Halved(x, 1), e + 1)
    ELSE Scale(Trim(x.neg, Rounded(x, 0), Len(Rounded(x, 0))), e)

\* the binary exponent to start from: 10^(p-1) <= |v| < 10^p, and log2(10) is
\* 3.3219...
FirstExp(v) ==
    IF ((v.p - 1) * 3322) \div 1000 - 53 < -1074 THEN -1074
    ELSE ((v.p - 1) * 3322) \div 1000 - 53

\* the exact decimal expansion of the double nearest to a number
NearestDouble(v) ==
    IF v.ds = <<>> THEN v ELSE Binary(Scale(v, -FirstExp(v)), FirstExp(v))

\* the number cut to n significant digits, and that plus one in the last place
CutTo(v, n) == Trim(v.neg, SubSeq(v.ds, 1, n), v.p)

CutUp(v, n) ==
    Trim(v.neg, Increment(SubSeq(v.ds, 1, n)),
         v.p + Len(Increment(SubSeq(v.ds, 1, n))) - n)

\* of the two, the one nearer to v first
NearFirst(v, n) ==
    IF DigitAt(v.ds, n + 1) >= 5 THEN << CutUp(v, n), CutTo(v, n) >>
    ELSE << CutTo(v, n), CutUp(v, n) >>

\* the doubles nearest to two decimals
Doubles(c) == [i \in 1..2 |-> NearestDouble(c[i])]

\* the first of the decimals c whose double (in d) is x, else rest
FirstBack(x, c, d, rest) ==
    IF d[1] = x THEN c[1] ELSE IF d[2] = x THEN c[2] ELSE rest

Candidates(x, c, rest) == FirstBack(x, c, Doubles(c), rest)

RECURSIVE Shortest(_, _)
\* the shortest decimal whose nearest double is x (x an exact expansion): what
\* repr() prints, and the form a float is held in
Shortest(x, n) ==
    IF n >= Len(x.ds) THEN x
    ELSE Candidates(x, NearFirst(x, n), Shortest(x, n + 1))

\* a decimal of at most 15 digits in the normal range is the shortest decimal
\* of its double
IsShort(v) == Len(v.ds) <= 15 /\ -307 < v.p /\ v.p <= 308

\* 2^1024 - 2^970, that is (2^54 - 1) * 2^970: half way between the largest
\* double, 1.7976931348623157e308, and 2^1024
HalfWayUp == Scale(Trim(FALSE, <<1,8,0,1,4,3,9,8,5,0,9,4,8,1,9,8,3>>, 17), 970)

\* from 2^1024 - 2^970 on a number rounds to infinity, below it to a double
Ranged(v) ==
    IF v.p >= 309 /\ ~MagLt(v, HalfWayUp)
    THEN Inf(v.neg)
    ELSE IF IsShort(v) THEN v
    ELSE Shortest(NearestDouble(v), 1)

\* the float of sign, digits and decimal point position
Float(neg, ds, p) == Ranged(Trim(neg, ds, p))

\* the float of an integer of at most 15 digits: the digits are its shortest
\* decimal
Num(n) == Trim(n < 0, DigitsOf(Abs(n)), Len(DigitsOf(Abs(n))))

\* the float of h hundredths, h of at most 15 digits: Hundredths(2050) is 20.5
Hundredths(h) == Trim(h < 0, DigitsOf(Abs(h)), Len(DigitsOf(Abs(h))) - 2)

\* the exact value of a float: its own digits when they are few enough for
\* six decimals of it to be exact
Exact(v) ==
    IF Len(v.ds) <= 15 /\ v.p <= 9 /\ Len(v.ds) - v.p <= 6 THEN v ELSE NearestDouble(v)

\* '%f' % value: sign, integer part, '.', six decimals
FormatF(v) ==
    IF v.k = "nan" THEN <<"n","a","n">>
    ELSE (IF v.neg THEN <<"-">> ELSE <<>>)
         \o (IF v.k = "inf" THEN <<"i","n","f">>
             ELSE LET r == Rounded(Exact(v), 6)
                  IN  DigitsText(SubSeq(r, 1, Len(r) - 6)) \o <<".">>
                      \o DigitsText(SubSeq(r, Len(r) - 5, Len(r))))

\* str(x) of a float x: the shortest decimal that gives x back, in fixed
\* notation while 1e-4 <= |x| < 1e16 and in exponent notation outside
StrFloat(v) ==
    IF v.k = "nan" THEN <<"n","a","n">>
    ELSE (IF v.neg THEN <<"-">> ELSE <<>>)
         \o (IF v.k = "inf" THEN <<"i","n","f">>
             ELSE IF v.ds = <<>> THEN <<"0",".","0">>
             ELSE IF -3 <= v.p /\ v.p <= 16
             THEN (IF v.p <= 0 THEN <<"0">>
                   ELSE DigitsText([i \in 1..v.p |-> DigitAt(v.ds, i)]))
                  \o <<".">>
                  \o (IF v.p >= Len(v.ds) THEN <<"0">>
                      ELSE IF v.p <= 0
                      THEN [i \in 1..(-v.p) |-> "0"] \o DigitsText(v.ds)
                      ELSE DigitsText(SubSeq(v.ds, v.p + 1, Len(v.ds))))
             ELSE << DigitChars[v.ds[1] + 1] >>
                  \o (IF Len(v.ds) > 1 THEN <<".">> \o DigitsText(Tail(v.ds)) ELSE <<>>)
                  \o <<"e">> \o (IF v.p - 1 < 0 THEN <<"-">> ELSE <<"+">>)
                  \o zfill(NatToStr(Abs(v.p - 1)), 2))

\* the whitespace float() and int() ignore around a number: tab, line feed,
\* vertical tab, form feed, carriage return, space, next line (U+0085),
\* no-break space (U+00A0), and the space and line separators beyond Latin-1
\* (U+1680, U+2000 to U+200A, U+2028, U+2029, U+202F, U+205F, U+3000); the
\* information separators U+001C to U+001F are not among them
WhiteSpace ==
    {" ", "\t", "\n", "\r", "\f", "", "", " ",
     "U+000B", "U+0085", "U+00A0",
     "U+1680", "U+2000", "U+2001", "U+2002", "U+2003", "U+2004", "U+2005", "U+2006",
     "U+2007", "U+2008", "U+2009", "U+200A", "U+2028", "U+2029", "U+202F", "U+205F", "U+3000"}

\* the text float() and int() convert: without the whitespace around it
RECURSIVE strip(_)
strip(s) ==
    IF s = <<>> THEN s
    ELSE IF s[1] \in WhiteSpace THEN strip(Tail(s))
    ELSE IF Last(s) \in WhiteSpace THEN strip(SubSeq(s, 1, Len(s) - 1))
    ELSE s

\* the part of s after an optional sign
Unsigned(s) == IF s # <<>> /\ s[1] \in {"-", "+"} THEN Tail(s) ELSE s

Negative(s) == s # <<>> /\ s[1] = "-"

\* decimal digits of any script, with single underscores allowed between digits
IsDigitPart(s) ==
    /\ s # <<>>
    /\ \A i \in 1..Len(s) :
          \/ IsDecimal(s[i])
          \/ (s[i] = "_" /\ 1 < i /\ i < Len(s) /\ IsDecimal(s[i - 1]) /\ IsDecimal(s[i + 1]))

\* the digits of a digit part, as numbers
DigitsIn(s) == LET d == SelectSeq(s, IsDecimal) IN [i \in 1..Len(d) |-> DigitVal(d[i])]

\* the first index of s holding one of cs, 0 if none
FirstOf(s, cs) ==
    IF \E i \in 1..Len(s) : s[i] \in cs
    THEN CHOOSE i \in 1..Len(s) : s[i] \in cs /\ \A j \in 1..(i - 1) : s[j] \notin cs
    ELSE 0

DotPos(s) == FirstOf(s, {"."})

IntPart(s) == IF DotPos(s) = 0 THEN s ELSE SubSeq(s, 1, DotPos(s) - 1)

FracPart(s) == IF DotPos(s) = 0 THEN <<>> ELSE SubSeq(s, DotPos(s) + 1, Len(s))

UpperCase == <<"A","E","F","I","N","T","Y">>
LowerCase == <<"a","e","f","i","n","t","y">>

\* str.lower() on the letters float() knows
lower(s) ==
    [i \in 1..Len(s) |->
        IF \E j \in 1..Len(UpperCase) : UpperCase[j] = s[i]
        THEN LowerCase[CHOOSE j \in 1..Len(UpperCase) : UpperCase[j] = s[i]]
        ELSE s[i]]

\* the value of an exponent's digits, cut off far beyond the range of a double
ExpVal(ds) ==
    LET n == Trim(FALSE, ds, Len(ds))
    IN  IF n.p > 5 THEN 99999
        ELSE StrToNat(DigitsText(SubSeq(ds, Len(ds) - n.p + 1, Len(ds))))

\* float() of a decimal literal: mantissa, and exponent if any
ParseDecimal(neg, mant, hasExp, ex) ==
    LET ip == IntPart(mant)
        fp == FracPart(mant)
        good == /\ ip = <<>> \/ IsDigitPart(ip)
                /\ fp = <<>> \/ IsDigitPart(fp)
                /\ ip # <<>> \/ fp # <<>>
                /\ hasExp => IsDigitPart(Unsigned(ex))
    IN  IF ~good THEN [ok |-> FALSE, v |-> 0]
        ELSE LET e == IF hasExp
                      THEN (IF Negative(ex) THEN -1 ELSE 1) * ExpVal(DigitsIn(Unsigned(ex)))
                      ELSE 0
             IN  [ok |-> TRUE,
                  v |-> Float(neg, DigitsIn(ip) \o DigitsIn(fp), Len(DigitsIn(ip)) + e)]

\* float(s): [ok, v]; ok = FALSE is the ValueError float() raises
ParseFloat(s) ==
    LET t == strip(s)
        u == lower(Unsigned(t))
        epos == FirstOf(u, {"e"})
    IN  IF u \in {<<"i","n","f">>, <<"i","n","f","i","n","i","t","y">>}
        THEN [ok |-> TRUE, v |-> Inf(Negative(t))]
        ELSE IF u = <<"n","a","n">> THEN [ok |-> TRUE, v |-> NaN]
        ELSE ParseDecimal(Negative(t),
                          IF epos = 0 THEN u ELSE SubSeq(u, 1, epos - 1),
                          epos # 0,
                          IF epos = 0 THEN <<>> ELSE SubSeq(u, epos + 1, Len(u)))

\* int(s): [ok, v]
ParseInt(s) ==
    LET t == strip(s)
        u == Unsigned(t)
    IN  IF IsDigitPart(u)
        THEN [ok |-> TRUE,
              v |-> (IF Negative(t) THEN -1 ELSE 1) * StrToNat(SelectSeq(u, IsDecimal))]
        ELSE [ok |-> FALSE, v |-> 0]

\* a, b, c = [int(s) for s in val.split(':')]: [ok, why, v]; ok = FALSE is the
\* ValueError of int() or of the unpacking
IntFields(val) ==
    LET parts == split(val, Colon, -1)
    IN  IF \E i \in 1..Len(parts) : ~ParseInt(parts[i]).ok
        THEN [ok |-> FALSE, why |-> "convert", v |-> <<>>]
        ELSE IF Len(parts) # 3 THEN [ok |-> FALSE, why |-> "unpack", v |-> <<>>]
        ELSE [ok |-> TRUE, why |-> "ok", v |-> [i \in 1..3 |-> ParseInt(parts[i]).v]]

\* convert(value) for convert in float, int, str
Convert(conv, s) ==
    CASE conv = "float" -> ParseFloat(s)
      [] conv = "int" -> ParseInt(s)
      [] OTHER -> [ok |-> TRUE, v |-> s]

RECURSIVE filter_digits(_)
\* filter(lambda x: x in '0123456789.', s)
filter_digits(s) ==
    IF s = <<>> THEN <<>>
    ELSE (IF IsDigit(s[1]) \/ s[1] = "." THEN << s[1] >> ELSE <<>>) \o filter_digits(Tail(s))

\* convert_scaled_values(s): [ok, v, unit]; ok = FALSE is the ValueError of float(f)
Scaled(c, unit) == [ok |-> c.ok, v |-> c.v, unit |-> unit]

ScaledParts(s, f) ==
    Scaled(ParseFloat(f), IF f = <<>> THEN sAU ELSE Last(split(s, f, -1)))

convert_scaled_values(s) == ScaledParts(s, filter_digits(s))

(* ------------------------------------------------------------------ *)
(* Wire protocol                                                        *)
(* ------------------------------------------------------------------ *)
\* q = 'READ:%s:%s' % (self.address, name)
ReadCmd(address, name) == sREAD \o Colon \o address \o Colon \o name

\* value_str of _write_property, by the convert function given
ValueStr(conv, value) ==
    CASE conv = "float" -> FormatF(value)
      [] conv = "int" -> FormatI(value)
      [] OTHER -> value

\* q = 'SET:%s:%s:%s' % (self.address, name, value_str)
SetCmd(address, name, value_str) ==
    sSET \o Colon \o address \o Colon \o name \o Colon \o value_str

\* _read_property, after the query: the value text and its conversion
_read_property(resp, conv, ignored_delimiters) ==
    LET delimiters == count(resp, ":")
        value == Last(split(resp, Colon, delimiters - ignored_delimiters))
    IN  Convert(conv, value)

\* _write_property, after the query: [ok, why, v]
Confirmed(c) ==
    IF c.ok THEN [ok |-> TRUE, why |-> "ok", v |-> c.v]
    ELSE [ok |-> FALSE, why |-> "convert", v |-> 0]

\* fault: the terminal token is not looked at
WriteReplyAnyToken(parts, conv) ==
    IF Len(parts) < 2 THEN [ok |-> FALSE, why |-> "index", v |-> 0]
    ELSE Confirmed(Convert(conv, parts[Len(parts) - 1]))

WriteReply(parts, conv) ==
    IF Last(parts) # sVALID THEN [ok |-> FALSE, why |-> "rejected", v |-> 0]
    ELSE IF Len(parts) < 2 THEN [ok |-> FALSE, why |-> "index", v |-> 0]
    ELSE Confirmed(Convert(conv, parts[Len(parts) - 1]))

_write_property(resp, conv) == WriteReply(split(resp, Colon, -1), conv)

(* ------------------------------------------------------------------ *)
(* Classes and their properties                                         *)
(* ------------------------------------------------------------------ *)
nSERL == <<"M","A","N",":","S","E","R","L">>
nDIMA == <<"D","I","S","P",":","D","I","M","A">>
nNICK == <<"N","I","C","K">>
nRES == <<"R","E","S">>
nVLIM == <<"V","L","I","M">>
nVOLT == <<"S","I","G",":","V","O","L","T">>
nSIGTEMP == <<"S","I","G",":","T","E","M","P">>
nLOOPHTR == <<"L","O","O","P",":","H","T","R">>
nCAT == <<"C","A","T">>
nCURR == <<"S","I","G",":","C","U","R","R">>
nPWR == <<"S","I","G",":","P","W","R">>
nSIGRES == <<"S","I","G",":","R","E","S">>
nSLOP == <<"S","I","G",":","S","L","O","P">>
nSTEP == <<"S","I","G",":","S","T","E","P">>
nPERC == <<"S","I","G",":","P","E","R","C">>
nIN == <<"S","I","G",":","I","N">>
nTYPE == <<"T","Y","P","E">>
nPMAX == <<"P","M","A","X">>
nTIME == <<"T","I","M","E">>
nDATE == <<"D","A","T","E">>
nEXCTTYPE == <<"E","X","C","T",":","T","Y","P","E">>
nCALINT == <<"C","A","L",":","I","N","T">>

\* MercuryITC.DIMAS
DIMAS == {sON, sOFF}

\* MercuryITC_TEMP.TYPES and CAL_INT (EXCT_TYPES is used in an error message only)
TYPES == {<<"P","T","C">>, <<"N","T","C">>, <<"D","D","E">>, <<"T","C","E">>}
CAL_INT == {<<"L","I","N">>, <<"S","P","L">>, <<"L","A","G","R">>}

ModuleClasses == {"TEMP", "AUX", "HTR"}

\* the properties of each class, inherited ones included; t_volt and t_res are
\* the volt and res of MercuryITC_TEMP
PropsOf(cls) ==
    CASE cls = "SYS" -> {"serl", "dima", "time", "date", "hver", "fver", "flsh", "rst",
                         "connected", "dimt", "brig", "alarms"}
      [] cls = "HTR" -> {"serl", "nick", "res", "vlim", "volt", "curr", "powr", "pmax",
                         "hver", "fver"}
      [] cls = "TEMP" -> {"serl", "nick", "t_volt", "t_res", "temp", "slop", "loop_htr",
                          "type", "exct_type", "cal_int", "hver", "fver", "exct_mag",
                          "cal_file", "cal_scal", "cal_offs", "cal_hotl", "cal_coldl",
                          "loop_aux", "loop_p", "loop_i", "loop_d", "loop_pidt",
                          "loop_enab", "loop_faut", "loop_tset", "loop_fset", "loop_hset",
                          "loop_rset", "loop_rena"}
      [] cls = "AUX" -> {"serl", "nick", "step", "perc", "in_", "hver", "fver", "gmin",
                         "gfsf", "tes", "tves", "gear", "spd"}
      [] OTHER -> {}

\* the getter of each property: protocol name, convert, whether it goes
\* through _read_cached_property, ignored_delimiters, and whether the value
\* read is passed to convert_scaled_values
Getter(p) ==
    CASE p = "serl" -> [name |-> nSERL, conv |-> "str", cached |-> TRUE, ign |-> 0, scaled |-> FALSE]
      [] p = "dima" -> [name |-> nDIMA, conv |-> "str", cached |-> TRUE, ign |-> 0, scaled |-> FALSE]
      [] p = "nick" -> [name |-> nNICK, conv |-> "str", cached |-> TRUE, ign |-> 0, scaled |-> FALSE]
      [] p = "res" -> [name |-> nRES, conv |-> "float", cached |-> TRUE, ign |-> 0, scaled |-> FALSE]
      [] p = "vlim" -> [name |-> nVLIM, conv |-> "float", cached |-> TRUE, ign |-> 0, scaled |-> FALSE]
      [] p = "volt" -> [name |-> nVOLT, conv |-> "str", cached |-> FALSE, ign |-> 0, scaled |-> TRUE]
      [] p = "temp" -> [name |-> nSIGTEMP, conv |-> "str", cached |-> FALSE, ign |-> 0, scaled |-> TRUE]
      [] p = "loop_htr" -> [name |-> nLOOPHTR, conv |-> "str", cached |-> TRUE, ign |-> 0, scaled |-> FALSE]
      [] p = "curr" -> [name |-> nCURR, conv |-> "str", cached |-> FALSE, ign |-> 0, scaled |-> TRUE]
      [] p = "powr" -> [name |-> nPWR, conv |-> "str", cached |-> FALSE, ign |-> 0, scaled |-> FALSE]
      [] p = "t_volt" -> [name |-> nVOLT, conv |-> "str", cached |-> FALSE, ign |-> 0, scaled |-> TRUE]
      [] p = "t_res" -> [name |-> nSIGRES, conv |-> "str", cached |-> FALSE, ign |-> 0, scaled |-> TRUE]
      [] p = "slop" -> [name |-> nSLOP, conv |-> "str", cached |-> FALSE, ign |-> 0, scaled |-> TRUE]
      [] p = "step" -> [name |-> nSTEP, conv |-> "str", cached |-> FALSE, ign |-> 0, scaled |-> TRUE]
      [] p = "perc" -> [name |-> nPERC, conv |-> "str", cached |-> FALSE, ign |-> 0, scaled |-> TRUE]
      [] p = "in_" -> [name |-> nIN, conv |-> "str", cached |-> FALSE, ign |-> 0, scaled |-> TRUE]
      [] p = "time" -> [name |-> nTIME, conv |-> "str", cached |-> FALSE, ign |-> 2, scaled |-> FALSE]
      [] p = "date" -> [name |-> nDATE, conv |-> "str", cached |-> FALSE, ign |-> 2, scaled |-> FALSE]
      [] p = "pmax" -> [name |-> nPMAX, conv |-> "float", cached |-> TRUE, ign |-> 0, scaled |-> FALSE]
      [] p = "type" -> [name |-> nTYPE, conv |-> "str", cached |-> TRUE, ign |-> 0, scaled |-> FALSE]
      [] p = "exct_type" -> [name |-> nEXCTTYPE, conv |-> "str", cached |-> TRUE, ign |-> 0, scaled |-> FALSE]
      [] p = "cal_int" -> [name |-> nCALINT, conv |-> "str", cached |-> TRUE, ign |-> 0, scaled |-> FALSE]
      [] p = "hver" -> [name |-> <<"M","A","N",":","H","V","E","R">>, conv |-> "str", cached |-> TRUE, ign |-> 0, scaled |-> FALSE]
      [] p = "fver" -> [name |-> <<"M","A","N",":","F","V","E","R">>, conv |-> "str", cached |-> TRUE, ign |-> 0, scaled |-> FALSE]
      [] p = "flsh" -> [name |-> <<"F","L","S","H">>, conv |-> "float", cached |-> TRUE, ign |-> 0, scaled |-> FALSE]
      [] p = "rst" -> [name |-> <<"R","S","T">>, conv |-> "str", cached |-> FALSE, ign |-> 0, scaled |-> FALSE]
      [] p = "connected" -> [name |-> <<>>, conv |-> "str", cached |-> FALSE, ign |-> 0, scaled |-> FALSE]
      [] p = "dimt" -> [name |-> <<"D","I","S","P",":","D","I","M","T">>, conv |-> "int", cached |-> TRUE, ign |-> 0, scaled |-> FALSE]
      [] p = "brig" -> [name |-> <<"D","I","S","P",":","B","R","I","G">>, conv |-> "float", cached |-> TRUE, ign |-> 0, scaled |-> FALSE]
      [] p = "alarms" -> [name |-> <<"A","L","R","M">>, conv |-> "str", cached |-> FALSE, ign |-> 0, scaled |-> FALSE]
      [] p = "exct_mag" -> [name |-> <<"E","X","C","T",":","M","A","G">>, conv |-> "float", cached |-> TRUE, ign |-> 0, scaled |-> FALSE]
      [] p = "cal_file" -> [name |-> <<"C","A","L",":","F","I","L","E">>, conv |-> "str", cached |-> TRUE, ign |-> 0, scaled |-> FALSE]
      [] p = "cal_scal" -> [name |-> <<"C","A","L",":","S","C","A","L">>, conv |-> "float", cached |-> TRUE, ign |-> 0, scaled |-> FALSE]
      [] p = "cal_offs" -> [name |-> <<"C","A","L",":","O","F","F","S">>, conv |-> "float", cached |-> TRUE, ign |-> 0, scaled |-> FALSE]
      [] p = "cal_hotl" -> [name |-> <<"C","A","L",":","H","O","T","L">>, conv |-> "str", cached |-> TRUE, ign |-> 0, scaled |-> TRUE]
      [] p = "cal_coldl" -> [name |-> <<"C","A","L",":","C","O","L","D","L">>, conv |-> "str", cached |-> TRUE, ign |-> 0, scaled |-> TRUE]
      [] p = "loop_aux" -> [name |-> <<"L","O","O","P",":","A","U","X">>, conv |-> "str", cached |-> TRUE, ign |-> 0, scaled |-> FALSE]
      [] p = "loop_p" -> [name |-> <<"L","O","O","P",":","P">>, conv |-> "float", cached |-> TRUE, ign |-> 0, scaled |-> FALSE]
      [] p = "loop_i" -> [name |-> <<"L","O","O","P",":","I">>, conv |-> "float", cached |-> TRUE, ign |-> 0, scaled |-> FALSE]
      [] p = "loop_d" -> [name |-> <<"L","O","O","P",":","D">>, conv |-> "float", cached |-> TRUE, ign |-> 0, scaled |-> FALSE]
      [] p = "loop_pidt" -> [name |-> <<"L","O","O","P",":","P","I","D","T">>, conv |-> "str", cached |-> TRUE, ign |-> 0, scaled |-> FALSE]
      [] p = "loop_enab" -> [name |-> <<"L","O","O","P",":","E","N","A","B">>, conv |-> "str", cached |-> TRUE, ign |-> 0, scaled |-> FALSE]
      [] p = "loop_faut" -> [name |-> <<"L","O","O","P",":","F","A","U","T">>, conv |-> "str", cached |-> TRUE, ign |-> 0, scaled |-> FALSE]
      [] p = "loop_tset" -> [name |-> <<"L","O","O","P",":","T","S","E","T">>, conv |-> "str", cached |-> FALSE, ign |-> 0, scaled |-> TRUE]
      [] p = "loop_fset" -> [name |-> <<"L","O","O","P",":","F","S","E","T">>, conv |-> "float", cached |-> FALSE, ign |-> 0, scaled |-> FALSE]
      [] p = "loop_hset" -> [name |-> <<"L","O","O","P",":","H","S","E","T">>, conv |-> "float", cached |-> FALSE, ign |-> 0, scaled |-> FALSE]
      [] p = "loop_rset" -> [name |-> <<"L","O","O","P",":","R","S","E","T">>, conv |-> "str", cached |-> TRUE, ign |-> 0, scaled |-> FALSE]
      [] p = "loop_rena" -> [name |-> <<"L","O","O","P",":","R","E","N","A">>, conv |-> "str", cached |-> TRUE, ign |-> 0, scaled |-> FALSE]
      [] p = "gmin" -> [name |-> <<"G","M","I","N">>, conv |-> "float", cached |-> TRUE, ign |-> 0, scaled |-> FALSE]
      [] p = "gfsf" -> [name |-> <<"G","F","S","F">>, conv |-> "float", cached |-> TRUE, ign |-> 0, scaled |-> FALSE]
      [] p = "tes" -> [name |-> <<"T","E","S">>, conv |-> "float", cached |-> TRUE, ign |-> 0, scaled |-> FALSE]
      [] p = "tves" -> [name |-> <<"T","V","E","S">>, conv |-> "float", cached |-> TRUE, ign |-> 0, scaled |-> FALSE]
      [] p = "gear" -> [name |-> <<"G","E","A","R">>, conv |-> "int", cached |-> TRUE, ign |-> 0, scaled |-> FALSE]
      [] p = "spd" -> [name |-> <<"S","P","D">>, conv |-> "int", cached |-> TRUE, ign |-> 0, scaled |-> FALSE]

\* properties with a setter, and those with a deleter
Writable == {"dima", "nick", "res", "vlim", "volt", "loop_htr", "type", "exct_type",
             "cal_int", "powr", "time", "date", "rst", "dimt", "brig", "exct_mag",
             "cal_file", "cal_scal", "cal_offs", "loop_aux", "loop_p", "loop_i", "loop_d",
             "loop_pidt", "loop_enab", "loop_faut", "loop_tset", "loop_fset", "loop_hset",
             "loop_rset", "loop_rena", "gmin", "gfsf", "tes", "tves", "gear", "spd"}
Deletable == {"serl", "dima", "nick", "res", "vlim", "loop_htr", "type", "exct_type",
              "cal_int", "pmax", "hver", "fver", "dimt", "brig", "exct_mag", "cal_file",
              "cal_scal", "cal_offs", "cal_hotl", "cal_coldl", "loop_aux", "loop_p",
              "loop_i", "loop_d", "loop_pidt", "loop_enab", "loop_faut", "loop_rset",
              "loop_rena", "gmin", "gfsf", "tes", "tves", "gear", "spd"}

\* the manual's signals among the modelled properties
SignalProps == {"volt", "curr", "powr", "t_volt", "t_res", "temp", "slop",
                "step", "perc", "in_"}
SignalNames == {Getter(p).name : p \in SignalProps}

\* the setter's write: through _write_cached_property or _write_property
SetterCached(p) == p \in {"dima", "nick", "res", "vlim", "loop_htr", "type", "exct_type",
                          "cal_int", "dimt", "brig", "exct_mag", "cal_file", "cal_scal",
                          "cal_offs", "loop_aux", "loop_p", "loop_i", "loop_d",
                          "loop_pidt", "loop_enab", "loop_faut", "loop_rset", "loop_rena",
                          "gmin", "gfsf", "tes", "tves", "gear", "spd"}

(* ------------------------------------------------------------------ *)
(* The instrument on the other end of the session                       *)
(* ------------------------------------------------------------------ *)
aH1 == <<"D","E","V",":","H","1",":","H","T","R">>
aT1 == <<"D","E","V",":","T","1",":","T","E","M","P">>
aA1 == <<"D","E","V",":","A","1",":","A","U","X">>

\* the instrument's answer to READ:SYS:CAT
CatText ==
    <<"S","T","A","T",":","S","Y","S",":","C","A","T",":","D","E","V",":","H","1",":","H","T","R",":","D","E","V",":","T","1",":","T","E","M","P">>
    \o <<":","D","E","V",":","A","1",":","A","U","X">>

\* the values the instrument holds when the driver is constructed
DevInit ==
    (<<sSYS, nSERL>> :> <<"A","1">>) @@ (<<sSYS, nDIMA>> :> sOFF)
    @@ (<<sSYS, nTIME>> :> <<"1","2",":","0","0",":","0","0">>)
    @@ (<<sSYS, nDATE>> :> <<"2","0","2","4",":","0","1",":","3","1">>)
    @@ (<<sSYS, nCAT>> :> SubSeq(CatText, 14, Len(CatText)))
    @@ (<<aH1, nNICK>> :> <<"h","A">>)
    @@ (<<aH1, nRES>> :> <<"5","0">>) @@ (<<aH1, nVLIM>> :> <<"3","0",".","0">>)
    @@ (<<aH1, nVOLT>> :> <<"0",".","0","V">>)
    @@ (<<aH1, nCURR>> :> <<"0",".","5","A">>) @@ (<<aH1, nPWR>> :> <<"1",".","5">>)
    @@ (<<aH1, nPMAX>> :> <<"4","0",".","0">>)
    @@ (<<aT1, nVOLT>> :> <<"1","2","m","V">>) @@ (<<aT1, nSIGRES>> :> <<"9","O">>)
    @@ (<<aT1, nSIGTEMP>> :> <<"4",".","2","K">>) @@ (<<aT1, nSLOP>> :> <<"3","O","/","K">>)
    @@ (<<aT1, nLOOPHTR>> :> sNone)
    @@ (<<aT1, nTYPE>> :> <<"P","T","C">>) @@ (<<aT1, nEXCTTYPE>> :> <<"U","N","I","P">>)
    @@ (<<aT1, nCALINT>> :> <<"L","I","N">>)
    @@ (<<aA1, nSTEP>> :> <<"7">>) @@ (<<aA1, nPERC>> :> <<"5","0",".","0","%">>)
    @@ (<<aA1, nIN>> :> <<"1">>)
    @@ (<<sSYS, <<"M","A","N",":","H","V","E","R">>>> :> <<"1",".","2">>)
    @@ (<<aH1, <<"M","A","N",":","H","V","E","R">>>> :> <<"1",".","2">>)
    @@ (<<aT1, <<"M","A","N",":","H","V","E","R">>>> :> <<"1",".","2">>)
    @@ (<<aA1, <<"M","A","N",":","H","V","E","R">>>> :> <<"1",".","2">>)
    @@ (<<sSYS, <<"M","A","N",":","F","V","E","R">>>> :> <<"2",".","3">>)
    @@ (<<aH1, <<"M","A","N",":","F","V","E","R">>>> :> <<"2",".","3">>)
    @@ (<<aT1, <<"M","A","N",":","F","V","E","R">>>> :> <<"2",".","3">>)
    @@ (<<aA1, <<"M","A","N",":","F","V","E","R">>>> :> <<"2",".","3">>)
    @@ (<<sSYS, <<"F","L","S","H">>>> :> <<"5","1","2",".","5">>)
    @@ (<<sSYS, <<"D","I","S","P",":","D","I","M","T">>>> :> <<"5">>)
    @@ (<<sSYS, <<"D","I","S","P",":","B","R","I","G">>>> :> <<"5","0",".","0">>)
    @@ (<<sSYS, <<"A","L","R","M">>>> :> <<"H","1","\t","O","p","e","n",";","T","1","\t","S","h","o","r","t",";">>)
    @@ (<<aT1, <<"E","X","C","T",":","M","A","G">>>> :> <<"1","0",".","0">>)
    @@ (<<aT1, <<"C","A","L",":","F","I","L","E">>>> :> <<"a",".","d","a","t">>)
    @@ (<<aT1, <<"C","A","L",":","S","C","A","L">>>> :> <<"1",".","0">>)
    @@ (<<aT1, <<"C","A","L",":","O","F","F","S">>>> :> <<"0",".","0">>)
    @@ (<<aT1, <<"C","A","L",":","H","O","T","L">>>> :> <<"3","0","0",".","0","K">>)
    @@ (<<aT1, <<"C","A","L",":","C","O","L","D","L">>>> :> <<"K">>)
    @@ (<<aT1, <<"L","O","O","P",":","A","U","X">>>> :> <<"N","o","n","e">>)
    @@ (<<aT1, <<"L","O","O","P",":","P">>>> :> <<"2",".","0">>)
    @@ (<<aT1, <<"L","O","O","P",":","I">>>> :> <<"1",".","0">>)
    @@ (<<aT1, <<"L","O","O","P",":","D">>>> :> <<"0",".","0">>)
    @@ (<<aT1, <<"L","O","O","P",":","P","I","D","T">>>> :> <<"O","F","F">>)
    @@ (<<aT1, <<"L","O","O","P",":","E","N","A","B">>>> :> <<"O","F","F">>)
    @@ (<<aT1, <<"L","O","O","P",":","F","A","U","T">>>> :> <<"O","F","F">>)
    @@ (<<aT1, <<"L","O","O","P",":","T","S","E","T">>>> :> <<"4",".","2","K">>)
    @@ (<<aT1, <<"L","O","O","P",":","F","S","E","T">>>> :> <<"0",".","0">>)
    @@ (<<aT1, <<"L","O","O","P",":","H","S","E","T">>>> :> <<"0",".","0">>)
    @@ (<<aT1, <<"L","O","O","P",":","R","S","E","T">>>> :> <<"i","n","f","K","/","m">>)
    @@ (<<aT1, <<"L","O","O","P",":","R","E","N","A">>>> :> <<"O","F","F">>)
    @@ (<<aA1, <<"G","M","I","N">>>> :> <<"2",".","0">>)
    @@ (<<aA1, <<"G","F","S","F">>>> :> <<"1",".","0">>)
    @@ (<<aA1, <<"T","E","S">>>> :> <<"1",".","0">>)
    @@ (<<aA1, <<"T","V","E","S">>>> :> <<"1",".","0">>)
    @@ (<<aA1, <<"G","E","A","R">>>> :> <<"3">>)
    @@ (<<aA1, <<"S","P","D">>>> :> <<"1">>)
    @@ (<<aH1, nSERL>> :> <<"H","7">>) @@ (<<aT1, nSERL>> :> <<"T","7">>)
    @@ (<<aA1, nSERL>> :> <<"A","7">>)
    @@ (<<aT1, nNICK>> :> <<"t","A">>) @@ (<<aA1, nNICK>> :> <<"a","A">>)

\* the values the instrument may confirm a SET with
DevDomain(name) ==
    CASE name = nDIMA -> {sON, sOFF}
      [] name = nNICK -> {<<"h","A">>, <<"h","B">>}
      [] name = nRES -> {<<"2","0",".","0">>, <<"5","0">>}
      [] name = nVLIM -> {<<"3","0",".","0">>, <<"2","0">>}
      [] name = nVOLT -> {<<"2","5",".","0","V">>}
      [] name = nLOOPHTR -> {<<"h","A">>, sNone}
      [] name = nTYPE -> {<<"N","T","C">>}
      [] name = nPWR -> {<<"1","0",".","0">>}
      [] name = nTIME -> {<<"0","7",":","0","5",":","0","9">>}
      [] name = nDATE -> {<<"2","0","2","4",":","0","2",":","0","1">>}
      [] name = nEXCTTYPE -> {<<"B","I","P">>}
      [] name = nCALINT -> {<<"S","P","L">>}
      [] name = <<"D","I","S","P",":","D","I","M","T">> -> {<<"5">>}
      [] name = <<"D","I","S","P",":","B","R","I","G">> -> {<<"6","0",".","0">>}
      [] name = <<"E","X","C","T",":","M","A","G">> -> {<<"1","0",".","0">>}
      [] name = <<"C","A","L",":","F","I","L","E">> -> {<<"b",".","d","a","t">>, <<"b">>}
      [] name = <<"C","A","L",":","S","C","A","L">> -> {<<"1",".","5">>}
      [] name = <<"C","A","L",":","O","F","F","S">> -> {<<"-","1","0","0",".","0">>}
      [] name = <<"L","O","O","P",":","A","U","X">> -> {<<"a","A">>}
      [] name = <<"L","O","O","P",":","P">> -> {<<"2",".","5">>}
      [] name = <<"L","O","O","P",":","I">> -> {<<"1",".","0">>}
      [] name = <<"L","O","O","P",":","D">> -> {<<"0",".","0">>}
      [] name = <<"L","O","O","P",":","P","I","D","T">> -> {<<"O","N">>}
      [] name = <<"L","O","O","P",":","E","N","A","B">> -> {<<"O","N">>}
      [] name = <<"L","O","O","P",":","F","A","U","T">> -> {<<"O","N">>}
      [] name = <<"L","O","O","P",":","T","S","E","T">> -> {<<"5",".","0","K">>, <<"5",".","0">>}
      [] name = <<"L","O","O","P",":","F","S","E","T">> -> {<<"5","0",".","0">>}
      [] name = <<"L","O","O","P",":","H","S","E","T">> -> {<<"5","0",".","0">>}
      [] name = <<"L","O","O","P",":","R","S","E","T">> -> {<<"1",".","5","K","/","m">>}
      [] name = <<"L","O","O","P",":","R","E","N","A">> -> {<<"O","N">>}
      [] name = <<"G","M","I","N">> -> {<<"2",".","0">>}
      [] name = <<"G","F","S","F">> -> {<<"9","9",".","0">>}
      [] name = <<"T","E","S">> -> {<<"2","0",".","0">>}
      [] name = <<"T","V","E","S">> -> {<<"0",".","0">>}
      [] name = <<"G","E","A","R">> -> {<<"7">>}
      [] name = <<"S","P","D">> -> {<<"2">>}
      [] name = <<"R","S","T">> -> {}
      [] OTHER -> {<<"x">>}

\* the values a caller assigns to a property
Vals(p) ==
    CASE p = "dima" -> {sON, <<"X">>}
      [] p = "nick" -> {<<"h","B">>}
      [] p = "res" -> {Hundredths(1999), Num(20), Num(100), Hundredths(10001)}
      [] p = "vlim" -> {Num(20), Hundredths(4001)}
      [] p = "volt" -> {[num |-> Num(25), unit |-> <<"V">>], [num |-> Num(-1), unit |-> <<"V">>]}
      [] p = "loop_htr" -> {<<"h","A">>, <<"z","z">>}
      [] p = "type" -> {<<"N","T","C">>, <<"X","Y","Z">>}
      [] p = "powr" -> {Num(10), Hundredths(4001), Hundredths(-1)}
      [] p = "time" -> {<<"7",":","5",":","9">>, <<"2","3",":","5","9",":","5","9">>,
                        <<"2","4",":","0",":","0">>, <<"0",":","6","0",":","0">>,
                        <<"0",":","0",":","6","0">>, <<"7",":","5">>}
      [] p = "date" -> {<<"9","8","7",":","1","2",":","3","1">>,
                        <<"2","0","2","4",":","2",":","0">>,
                        <<"2","0","2","4",":","1","3",":","1">>,
                        <<"2","0","2","4",":","0",":","9">>,
                        <<"2","0","2","4",":","1",":","3","2">>}
      [] p = "exct_type" -> {<<"B","I","P">>, <<"N","T","C">>}
      [] p = "cal_int" -> {<<"S","P","L">>, <<"X","Y","Z">>}
      [] p = "rst" -> {TRUE, FALSE}
      [] p = "dimt" -> {5, -1}
      [] p = "brig" -> {Num(60), Hundredths(10001), NaN}
      [] p = "exct_mag" -> {Num(10)}
      [] p = "cal_file" -> {<<"b",".","d","a","t">>, <<"b">>}
      [] p = "cal_scal" -> {Hundredths(150), Hundredths(49)}
      [] p = "cal_offs" -> {Num(-100), Num(101)}
      [] p = "loop_aux" -> {<<"a","A">>, <<"z","z">>}
      [] p \in {"loop_p", "loop_i", "loop_d"} -> {Hundredths(250)}
      [] p \in {"loop_pidt", "loop_enab", "loop_faut", "loop_rena"} -> {sON, <<"X">>}
      [] p = "loop_tset" -> {Num(5)}
      [] p \in {"loop_fset", "loop_hset"} -> {Num(50), Num(101)}
      [] p = "loop_rset" -> {<<"1",".","5","K","/","m">>}
      [] p = "gmin" -> {Num(2), Num(1)}
      [] p = "gfsf" -> {Num(99), Num(100)}
      [] p \in {"tes", "tves"} -> {Num(20), Num(-1)}
      [] p = "gear" -> {7, 8}
      [] p = "spd" -> {2, 3}
      [] OTHER -> {}

\* what one run works on: properties, and "conn" (connect, disconnect),
\* "raw" (the public write, read and query), "cat" (the catalogue property),
\* "repr" (repr of a module), "slow" (the device may let a read time out),
\* "dry" (the heater's power sense line reads N/A); a class, when named,
\* keeps the run's calls to the objects of the classes named
Scenarios == {{"serl", "conn", "slow", "SYS"}, {"dima", "slow"}, {"res", "conn"},
              {"vlim", "volt"}, {"nick", "loop_htr", "TEMP"}, {"nick", "HTR"},
              {"temp", "slow"}, {"serl", "raw", "slow", "SYS"}, {"dima", "cat"},
              {"curr", "powr"}, {"t_volt", "t_res", "slop"}, {"step", "perc", "in_"},
              {"type"}, {"exct_type", "cal_int"}, {"powr", "pmax"}, {"powr", "dry"},
              {"time"}, {"date"}, {"serl", "HTR"}, {"hver"}, {"fver", "TEMP"}, {"flsh"},
              {"connected", "conn"}, {"rst"}, {"dimt"}, {"brig"}, {"alarms"},
              {"exct_mag"}, {"cal_file"}, {"cal_scal"}, {"cal_offs"},
              {"cal_hotl", "cal_coldl"}, {"loop_aux"}, {"loop_p"}, {"loop_i"},
              {"loop_d"}, {"loop_pidt"}, {"loop_enab"}, {"loop_faut"}, {"loop_rena"},
              {"loop_tset"}, {"loop_fset"}, {"loop_hset"}, {"loop_rset"}, {"gmin"},
              {"gfsf"}, {"tes"}, {"tves"}, {"gear"}, {"spd"}, {"repr", "nick", "HTR"},
              {"loop_p", "raw"}}

(* ------------------------------------------------------------------ *)
(* State                                                                *)
(* ------------------------------------------------------------------ *)
VARIABLES
    connection,  \* MercuryITC.connection: 0 is None, else the session's number
    nsess,       \* sessions opened so far by rm.open_resource
    closed,      \* the sessions closed by connection.close()
    modules,     \* MercuryITC.modules: whether the attribute exists (_init_modules
                 \* creates it), and the objects discovery made, in order
    objs,        \* every driver object: objs[1] is the MercuryITC, then the modules made
    lockOwner,   \* MercuryITC._lock: the thread holding the RLock, 0 when free
    lockCount,   \* its recursion level
    inbuf,       \* request lines written to the session, not yet answered
    outbuf,      \* response lines the session holds unread
    dev,         \* the instrument's values, by address and name
    th,          \* each thread's call in progress, or its last call's outcome
    nops,        \* operations started
    lastEv,      \* history: the last completed access of each (object, name)
    origin,      \* history: the response line each cache entry was stored from
    preDisc,     \* history: what was cached, by address, at the last disconnect()
    focus,       \* the properties this run works on
    _instances,  \* MercuryITCFactory._instances: address -> the driver stored for it
    made         \* history: the address of each MercuryITC constructed, in order

vars == << nops, connection, nsess, closed, modules, objs, lockOwner, lockCount, inbuf,
           outbuf, dev, th, lastEv, origin, preDisc, focus, _instances, made >>

Put(f, k, v) == (k :> v) @@ f

\* fault: nothing is removed
Keep(f, ks) == f

Drop(f, ks) == [k \in DOMAIN f \ ks |-> f[k]]

NoEv == [ev |-> "none", nx |-> 0, miss |-> FALSE, had |-> FALSE, val |-> <<>>,
         asked |-> <<>>, conf |-> <<>>]

Ev(f, k) == IF k \in DOMAIN f THEN f[k] ELSE NoEv

(* ------------------------------------------------------------------ *)
(* Discovery                                                            *)
(* ------------------------------------------------------------------ *)
\* fault: the AUX branch of _init_modules is missing
ClassOfNoAux(token) ==
    CASE token = sTEMP -> "TEMP"
      [] token = sHTR -> "HTR"
      [] OTHER -> "?"

\* the branch of _init_modules an entry's class token selects
ClassOf(token) ==
    CASE token = sTEMP -> "TEMP"
      [] token = sAUX -> "AUX"
      [] token = sHTR -> "HTR"
      [] OTHER -> "?"

\* MercuryModule.__init__(address, parent)
NewModule(cls, address) ==
    [cls |-> cls, address |-> address,
     uid |-> LET a == split(address, Colon, -1) IN a[Len(a) - 1],
     cache |-> <<>>, gen |-> <<>>]

RECURSIVE BuildModules(_)
\* the loop of _init_modules over the catalogue's entries: [ok, mods]; ok = FALSE
\* is the IndexError of module.split(':')[1], raised with mods built so far
BuildModules(entries) ==
    IF entries = <<>> THEN [ok |-> TRUE, mods |-> <<>>]
    ELSE LET module == Head(entries)
             parts == split(module, Colon, -1)
         IN  IF Len(parts) < 2 THEN [ok |-> FALSE, mods |-> <<>>]
             ELSE LET cls == ClassOf(parts[2])
                      address == sDEVpre \o module
                      rest == BuildModules(Tail(entries))
                      here == IF cls \in ModuleClasses
                              THEN << NewModule(cls, address) >> ELSE <<>>
                  IN  [ok |-> rest.ok, mods |-> here \o rest.mods]

\* _init_modules, given the response to self.cat
_init_modules(cat) == BuildModules(Tail(split(cat, sDEVsep, -1)))

\* MercuryITC.__init__: the root object
RootObj == [cls |-> "SYS", address |-> sSYS, uid |-> <<>>, cache |-> <<>>, gen |-> <<>>]

(* ------------------------------------------------------------------ *)
(* A property access as the sequence of its reads and writes            *)
(* ------------------------------------------------------------------ *)
\* a response line as received: whose request it answers, whether that request
\* had timed out, the kind of answer, the value a SET was confirmed with
NoResp == [by |-> 0, late |-> FALSE, ans |-> "none", conf |-> <<>>]

Received(resp) == [by |-> resp.by, late |-> resp.late, ans |-> resp.ans, conf |-> resp.conf]

\* a call as it begins; mods is the module list of its driver at that moment
Rec(kind, o, p, val, same, mods) ==
    [pc |-> "run", kind |-> kind, obj |-> o, prop |-> p, val |-> val, same |-> same,
     held |-> 0,
     got |-> <<>>, didset |-> FALSE, skipped |-> FALSE, hit |-> FALSE,
     nx |-> 0, nset |-> 0, stored |-> {}, status |-> "run", ret |-> <<>>,
     tostore |-> <<>>, line |-> <<>>, q |-> <<>>, mods |-> mods, recv |-> NoResp,
     caught |-> "none", prev |-> NoEv]

NewRec(kind, o, p, val, same) == Rec(kind, o, p, val, same, modules.list)

\* a finished call keeps its outcome, not its working values
Fin(rec) ==
    [rec EXCEPT !.pc = "done", !.got = <<>>, !.line = <<>>, !.q = <<>>, !.mods = <<>>]

Idle == [Fin(Rec("none", 0, "", <<>>, FALSE, <<>>)) EXCEPT !.status = "ok"]

\* the read a getter g makes: _read_cached_property or _read_property of its
\* name, convert function and ignored delimiters
ReadOf(o, g) ==
    [do |-> "read", obj |-> o, name |-> g.name, conv |-> g.conv,
     cached |-> g.cached, ign |-> g.ign, raw |-> FALSE]

\* fault: every property is read through the cache
ReadItemCached(o, p) == [ReadOf(o, Getter(p)) EXCEPT !.cached = TRUE]

ReadItem(o, p) == ReadOf(o, Getter(p))

\* the write a setter makes: _write_cached_property or _write_property
SetOf(o, g, cached, value) ==
    [do |-> "set", obj |-> o, name |-> g.name, conv |-> g.conv,
     cached |-> cached, value |-> value, raw |-> FALSE]

SetItem(o, p, value) == SetOf(o, Getter(p), SetterCached(p), value)

Raise(why) == [do |-> "raise", why |-> why]

\* the exception class a call that ended with this status raised
Raised(status) ==
    CASE status \in {"validation", "dry", "rejected", "convert", "unpack"} -> "ValueError"
      [] status = "KeyError" -> "KeyError"
      [] status = "index" -> "IndexError"
      [] status = "ConnectionError" -> "ConnectionError"
      [] status = "Timeout" -> "VisaIOError"
      [] OTHER -> "none"

Return(v) == [do |-> "return", ret |-> v]

\* the getter of rec.prop
ReturnScaled(c) == IF c.ok THEN Return(<< c.v, c.unit >>) ELSE Raise("convert")

ReturnFloat(c) == IF c.ok THEN Return(c.v) ELSE Raise("convert")

\* MercuryITC_HTR.powr: 'N/A' as it is, else float(val)
ReturnPowr(val) == IF val = sNA THEN Return(val) ELSE ReturnFloat(ParseFloat(val))

\* MercuryITC_TEMP.loop_tset: resp[0] of convert_scaled_values
ReturnFirst(c) == IF c.ok THEN Return(c.v) ELSE Raise("convert")

\* MercuryITC_TEMP.loop_rset: 'infK/m' is float('inf'), else resp[0] of
\* convert_scaled_values (c)
ReturnRset(resp, c) ==
    IF resp = <<"i","n","f","K","/","m">> THEN Return(Inf(FALSE))
    ELSE ReturnFirst(c)

RECURSIVE DictOf(_)
\* dict(pairs): a pair that is not of two items is a ValueError; of two pairs
\* with one key the later stays
DictOf(pairs) ==
    IF pairs = <<>> THEN [ok |-> TRUE, v |-> <<>>]
    ELSE IF Len(Last(pairs)) # 2 \/ ~DictOf(SubSeq(pairs, 1, Len(pairs) - 1)).ok
    THEN [ok |-> FALSE, v |-> <<>>]
    ELSE [ok |-> TRUE, v |-> Put(DictOf(SubSeq(pairs, 1, Len(pairs) - 1)).v,
                                 Last(pairs)[1], Last(pairs)[2])]

\* MercuryITC.alarms: dict(s.split('\t') for s in value.split(';') if s)
ReturnAlarms(value) ==
    LET string_list == SelectSeq(split(value, <<";">>, -1), LAMBDA x : x # <<>>)
        alarms_dict == DictOf([i \in 1..Len(string_list) |->
                                  split(string_list[i], <<"\t">>, -1)])
    IN  IF alarms_dict.ok THEN Return(alarms_dict.v) ELSE Raise("convert")

\* what a getter returns of the value read (of the cache or of the device); c
\* is convert_scaled_values of it, for the getters that call it
GetReturn(p, scaled, value, c) ==
    IF p = "loop_tset" THEN ReturnFirst(c)
    ELSE IF p = "loop_rset" THEN ReturnRset(value, c)
    ELSE IF p = "alarms" THEN ReturnAlarms(value)
    ELSE IF scaled THEN ReturnScaled(c)
    ELSE IF p = "powr" THEN ReturnPowr(value)
    ELSE Return(value)

GetPlan(rec) ==
    IF rec.prop = "rst" THEN Return(FALSE)
    ELSE IF rec.prop = "connected" THEN Return(connection # 0)
    ELSE IF rec.got = <<>> THEN ReadItem(rec.obj, rec.prop)
    ELSE GetReturn(rec.prop, Getter(rec.prop).scaled, rec.got[1],
                   convert_scaled_values(rec.got[1]))

\* the text of MercuryITC.__repr__: type name and visa_address
VisaAddress == <<"A","S","R","L","1">>

DriverRepr == <<"<","M","e","r","c","u","r","y","I","T","C","(">> \o VisaAddress \o <<")",">">>

\* the module classes' names
TypeName(cls) ==
    <<"M","e","r","c","u","r","y","I","T","C","_">>
    \o (CASE cls = "HTR" -> <<"H","T","R">>
           [] cls = "TEMP" -> <<"T","E","M","P">>
           [] cls = "AUX" -> <<"A","U","X">>)

\* MercuryModule.__repr__: '<%s(%s, %s)>' % (type(self).__name__, self.nick, self.parent)
ReprPlan(rec, O) ==
    IF rec.got = <<>> THEN ReadItem(rec.obj, "nick")
    ELSE Return(<<"<">> \o TypeName(O[rec.obj].cls) \o <<"(">> \o rec.got[1]
                \o <<",", " ">> \o DriverRepr \o <<")", ">">>)

\* the public query(q) of the driver or of a module: q is the READ of a
\* property, or its SET to a text, and the response line is returned as it is
QueryPlan(rec) ==
    IF rec.got # <<>> THEN Return(rec.got[1])
    ELSE IF rec.val = <<>>
    THEN [do |-> "read", obj |-> rec.obj, name |-> Getter(rec.prop).name, conv |-> "str",
          cached |-> FALSE, ign |-> 0, raw |-> TRUE]
    ELSE [do |-> "set", obj |-> rec.obj, name |-> Getter(rec.prop).name, conv |-> "str",
          cached |-> FALSE, value |-> rec.val, raw |-> TRUE]

\* MercuryITC.cat
CatPlan(rec) ==
    IF rec.got = <<>>
    THEN [do |-> "read", obj |-> rec.obj, name |-> nCAT, conv |-> "str",
          cached |-> FALSE, ign |-> 0, raw |-> TRUE]
    ELSE Return(rec.got[1])

\* MercuryITC.dima.setter
DimaSetter(rec) ==
    IF rec.val \notin DIMAS THEN Raise("validation")
    ELSE SetItem(rec.obj, "dima", rec.val)

\* MercuryModule.nick.setter
NickSetter(rec) == SetItem(rec.obj, "nick", rec.val)

\* MercuryITC_HTR.res.setter
ResSetter(rec) ==
    IF FloatLeq(Num(20), rec.val) /\ FloatLeq(rec.val, Num(100))
    THEN SetItem(rec.obj, "res", rec.val)
    ELSE Raise("validation")

\* MercuryITC_HTR.vlim.setter
VlimSetter(rec) ==
    IF FloatLeq(Num(0), rec.val) /\ FloatLeq(rec.val, Num(40))
    THEN SetItem(rec.obj, "vlim", rec.val)
    ELSE Raise("validation")

\* MercuryITC_HTR.volt.setter: 0 <= val[0] <= self.vlim reads vlim only when
\* 0 <= val[0]; the error message reads self.vlim again
VoltSetter(rec) ==
    IF FloatLeq(Num(0), rec.val.num)
    THEN CASE Len(rec.got) = 0 -> ReadItem(rec.obj, "vlim")
           [] Len(rec.got) = 1 ->
                IF FloatLeq(rec.val.num, rec.got[1])
                THEN SetItem(rec.obj, "volt", StrFloat(rec.val.num) \o rec.val.unit)
                ELSE ReadItem(rec.obj, "vlim")
           [] OTHER -> Raise("validation")
    ELSE IF Len(rec.got) = 0 THEN ReadItem(rec.obj, "vlim") ELSE Raise("validation")

\* MercuryITC_TEMP.loop_htr.setter: the nick of every heater of parent.modules
LoopHtrSetter(rec, O) ==
    LET htrs == SelectSeq(rec.mods, LAMBDA m : O[m].cls = "HTR")
    IN  IF Len(rec.got) < Len(htrs) THEN ReadItem(htrs[Len(rec.got) + 1], "nick")
        ELSE IF rec.val \in Range(rec.got) \cup {sNone}
             THEN SetItem(rec.obj, "loop_htr", rec.val)
             ELSE Raise("validation")

\* MercuryITC_TEMP.type.setter
TypeSetter(rec) ==
    IF rec.val \in TYPES THEN SetItem(rec.obj, "type", rec.val)
    ELSE Raise("validation")

\* MercuryITC_TEMP.exct_type.setter: the test is against TYPES
ExctTypeSetter(rec) ==
    IF rec.val \notin TYPES THEN Raise("validation")
    ELSE SetItem(rec.obj, "exct_type", rec.val)

\* MercuryITC_TEMP.cal_int.setter
CalIntSetter(rec) ==
    IF rec.val \in CAL_INT THEN SetItem(rec.obj, "cal_int", rec.val)
    ELSE Raise("validation")

\* MercuryITC_TEMP.loop_aux.setter: the nick of every aux module of parent.modules
LoopAuxSetter(rec, O) ==
    LET auxs == SelectSeq(rec.mods, LAMBDA m : O[m].cls = "AUX")
    IN  IF Len(rec.got) < Len(auxs) THEN ReadItem(auxs[Len(rec.got) + 1], "nick")
        ELSE IF rec.val \in Range(rec.got) \cup {sNone}
             THEN SetItem(rec.obj, "loop_aux", rec.val)
             ELSE Raise("validation")

\* the setters without a check: nick, exct_mag, cal_file, loop_p, loop_i,
\* loop_d, loop_rset
PlainSetter(rec) == SetItem(rec.obj, rec.prop, rec.val)

\* MercuryITC_TEMP.loop_tset.setter: no check, written as a float
LoopTsetSetter(rec) ==
    [do |-> "set", obj |-> rec.obj, name |-> Getter("loop_tset").name, conv |-> "float",
     cached |-> FALSE, value |-> rec.val, raw |-> FALSE]

\* the setters with `lo <= val <= hi`: cal_scal, cal_offs, loop_fset, loop_hset,
\* gfsf, tes, tves
BoundedSetter(rec, lo, hi) ==
    IF FloatLeq(lo, rec.val) /\ FloatLeq(rec.val, hi)
    THEN SetItem(rec.obj, rec.prop, rec.val)
    ELSE Raise("validation")

\* the setters of loop_pidt, loop_enab, loop_faut, loop_rena
OnOffSetter(rec) ==
    IF rec.val \in {sON, sOFF} THEN SetItem(rec.obj, rec.prop, rec.val)
    ELSE Raise("validation")

\* MercuryITC_AUX.gmin.setter
GminSetter(rec) ==
    IF FloatLt(Num(1), rec.val) THEN SetItem(rec.obj, "gmin", rec.val)
    ELSE Raise("validation")

\* MercuryITC_AUX.gear.setter
GearSetter(rec) ==
    IF 0 <= rec.val /\ rec.val <= 7 THEN SetItem(rec.obj, "gear", rec.val)
    ELSE Raise("validation")

\* MercuryITC_AUX.spd.setter
SpdSetter(rec) ==
    IF rec.val \in {0, 1, 2} THEN SetItem(rec.obj, "spd", rec.val)
    ELSE Raise("validation")

\* MercuryITC.dimt.setter
DimtSetter(rec) ==
    IF rec.val < 0 THEN Raise("validation")
    ELSE SetItem(rec.obj, "dimt", rec.val)

\* MercuryITC.brig.setter: val < 0 or val > 100 is False for nan
BrigSetter(rec) ==
    IF FloatLt(rec.val, Num(0)) \/ FloatLt(Num(100), rec.val) THEN Raise("validation")
    ELSE SetItem(rec.obj, "brig", rec.val)

\* MercuryITC.rst.setter: a true val sends SET:SYS:RST, a false one nothing
RstSetter(rec) ==
    IF rec.val
    THEN [do |-> "set", obj |-> rec.obj, name |-> Getter("rst").name, conv |-> "none",
          cached |-> FALSE, value |-> <<>>, raw |-> FALSE]
    ELSE Return(<<>>)

\* MercuryITC_HTR.powr.setter: SIG:PWR is read first; 0 <= val <= self.pmax
\* reads pmax only when 0 <= val; the error message reads self.pmax again
PowrSetter(rec) ==
    IF Len(rec.got) = 0 THEN ReadItem(rec.obj, "powr")
    ELSE IF rec.got[1] = sNA THEN Raise("dry")
    ELSE IF Len(rec.got) = 1 THEN ReadItem(rec.obj, "pmax")
    ELSE IF FloatLeq(Num(0), rec.val) /\ Len(rec.got) = 2
         THEN IF FloatLeq(rec.val, rec.got[2])
              THEN [do |-> "set", obj |-> rec.obj, name |-> nPWR, conv |-> "float",
                    cached |-> FALSE, value |-> rec.val, raw |-> FALSE]
              ELSE ReadItem(rec.obj, "pmax")
         ELSE Raise("validation")

\* MercuryITC.time.setter
TimeSetter(rec) ==
    LET f == IntFields(rec.val)
    IN  IF ~f.ok THEN Raise(f.why)
        ELSE IF f.v[1] < 0 \/ f.v[1] > 23 THEN Raise("validation")
        ELSE IF f.v[2] < 0 \/ f.v[2] > 59 THEN Raise("validation")
        ELSE IF f.v[3] < 0 \/ f.v[3] > 59 THEN Raise("validation")
        ELSE [do |-> "set", obj |-> rec.obj, name |-> nTIME, conv |-> "str",
              cached |-> FALSE, raw |-> FALSE,
              value |-> join(Colon, << zfill(FormatI(f.v[1]), 2), zfill(FormatI(f.v[2]), 2),
                                       zfill(FormatI(f.v[3]), 2) >>)]

\* MercuryITC.date.setter
DateSetter(rec) ==
    LET f == IntFields(rec.val)
    IN  IF ~f.ok THEN Raise(f.why)
        ELSE IF f.v[2] < 1 \/ f.v[2] > 12 THEN Raise("validation")
        ELSE IF f.v[3] < 0 \/ f.v[3] > 31 THEN Raise("validation")
        ELSE [do |-> "set", obj |-> rec.obj, name |-> nDATE, conv |-> "str",
              cached |-> FALSE, raw |-> FALSE,
              value |-> join(Colon, << zfill(FormatI(f.v[1]), 4), zfill(FormatI(f.v[2]), 2),
                                       zfill(FormatI(f.v[3]), 2) >>)]

SetPlan(rec, O) ==
    IF rec.didset THEN Return(<<>>)
    ELSE CASE rec.prop = "dima" -> DimaSetter(rec)
           [] rec.prop = "nick" -> NickSetter(rec)
           [] rec.prop = "res" -> ResSetter(rec)
           [] rec.prop = "vlim" -> VlimSetter(rec)
           [] rec.prop = "volt" -> VoltSetter(rec)
           [] rec.prop = "loop_htr" -> LoopHtrSetter(rec, O)
           [] rec.prop = "type" -> TypeSetter(rec)
           [] rec.prop = "powr" -> PowrSetter(rec)
           [] rec.prop = "time" -> TimeSetter(rec)
           [] rec.prop = "date" -> DateSetter(rec)
           [] rec.prop = "exct_type" -> ExctTypeSetter(rec)
           [] rec.prop = "cal_int" -> CalIntSetter(rec)
           [] rec.prop = "loop_aux" -> LoopAuxSetter(rec, O)
           [] rec.prop \in {"exct_mag", "cal_file", "loop_p", "loop_i", "loop_d",
                            "loop_rset"} -> PlainSetter(rec)
           [] rec.prop = "loop_tset" -> LoopTsetSetter(rec)
           [] rec.prop = "cal_scal" -> BoundedSetter(rec, Hundredths(50), Hundredths(150))
           [] rec.prop = "cal_offs" -> BoundedSetter(rec, Num(-100), Num(100))
           [] rec.prop \in {"loop_fset", "loop_hset"} -> BoundedSetter(rec, Num(0), Num(100))
           [] rec.prop = "gfsf" -> BoundedSetter(rec, Num(0), Num(99))
           [] rec.prop \in {"tes", "tves"} -> BoundedSetter(rec, Num(0), Num(20))
           [] rec.prop \in {"loop_pidt", "loop_enab", "loop_faut", "loop_rena"} ->
                OnOffSetter(rec)
           [] rec.prop = "gmin" -> GminSetter(rec)
           [] rec.prop = "gear" -> GearSetter(rec)
           [] rec.prop = "spd" -> SpdSetter(rec)
           [] rec.prop = "dimt" -> DimtSetter(rec)
           [] rec.prop = "brig" -> BrigSetter(rec)
           [] rec.prop = "rst" -> RstSetter(rec)

\* the calls that run a property body or a caller's query(q)
Planned == {"get", "cat", "set", "repr", "query"}

\* what the call of rec does next
Plan(rec, O) ==
    CASE rec.kind = "get" -> GetPlan(rec)
      [] rec.kind = "cat" -> CatPlan(rec)
      [] rec.kind = "set" -> SetPlan(rec, O)
      [] rec.kind = "repr" -> ReprPlan(rec, O)
      [] rec.kind = "query" -> QueryPlan(rec)

\* fault: the cache is never consulted
CacheMiss(item, O) == FALSE

\* _read_cached_property: try: return self._cache[name]
CacheHit(item, O) == item.cached /\ item.name \in DOMAIN O[item.obj].cache

\* the objects a cache entry has held so far: every store puts a new object
\* there (the conversion of a response line), so the number of stores tells
\* the objects apart
Gen(o, name) == IF name \in DOMAIN o.gen THEN o.gen[name] ELSE 0

\* the values the interpreter holds once: each integer from -5 to 256 and the
\* empty string; int() and split() return that one object, so equal values of
\* these are the same object
Shared(conv, v) ==
    \/ conv = "int" /\ v \in -5..256
    \/ conv = "str" /\ v = <<>>

\* a string of one character is held once by some interpreters and for some
\* ways of making it, and not by others
MayBeShared(conv, v) == conv = "str" /\ Len(v) = 1

\* _write_cached_property, self._cache[name] is not value: False when the
\* entry is the very object the caller passed, or equal to it and of the
\* values held once (one: a string of one character is)
WriteSkipped(rec, item, O, one) ==
    /\ item.cached
    /\ item.name \in DOMAIN O[item.obj].cache
    /\ \/ rec.held # 0 /\ Gen(O[item.obj], item.name) = rec.held
       \/ /\ Shared(item.conv, item.value) \/ (one /\ MayBeShared(item.conv, item.value))
          /\ O[item.obj].cache[item.name] = item.value

\* _write_cached_property, name not in self._cache: when False, the entry is
\* looked up next, in a second access to the dictionary
WriteTested(rec, item, O) ==
    IF item.cached /\ item.name \in DOMAIN O[item.obj].cache
    THEN [rec EXCEPT !.pc = "test"]
    ELSE [rec EXCEPT !.pc = "call"]

\* the item looks self._cache up: try: return self._cache[name], or
\* name not in self._cache
LooksUp(item) == item.do \in {"read", "set"} /\ item.cached

RECURSIVE Drive(_, _, _)
\* run the call on from where it stands. The dictionary self._cache is read
\* and written without the lock, so every access to it is a step of its own:
\* a step makes one look-up at most (first: it has made none yet) and stops
\* before the next one, where the other threads may store or delete; it
\* stops as well where the call has to wait for the lock, and where it ends
DriveItem(rec, O, item, first) ==
    IF item.do = "return" THEN [Fin(rec) EXCEPT !.status = "ok", !.ret = item.ret]
    ELSE IF item.do = "raise" THEN [Fin(rec) EXCEPT !.status = item.why]
    ELSE IF LooksUp(item) /\ ~first THEN [rec EXCEPT !.pc = "run"]
    ELSE IF item.do = "set" THEN WriteTested(rec, item, O)
    ELSE IF CacheHit(item, O)
         THEN Drive([rec EXCEPT !.got = Append(@, O[item.obj].cache[item.name]),
                                !.hit = (rec.kind = "get")], O, FALSE)
         ELSE [rec EXCEPT !.pc = "call"]

Drive(rec, O, first) == DriveItem(rec, O, Plan(rec, O), first)

\* history: the event a finished get or set leaves on its (object, name)
EvOf(rec) ==
    [ev |-> CASE rec.kind = "get" /\ rec.status = "ok" -> "read"
              [] rec.kind = "get" -> "readfail"
              [] rec.status = "ok" /\ rec.skipped -> "writeskip"
              [] rec.status = "ok" -> "write"
              [] OTHER -> "writefail",
     nx |-> rec.nx, miss |-> ~rec.hit, had |-> FALSE,
     val |-> IF rec.kind = "get" THEN rec.ret ELSE rec.tostore, asked |-> rec.val,
     conf |-> rec.recv.conf]

Note(rec, L) ==
    IF rec.pc = "done" /\ rec.kind \in {"get", "set"}
    THEN Put(L, << rec.obj, Getter(rec.prop).name >>, EvOf(rec))
    ELSE L

(* ------------------------------------------------------------------ *)
(* Initial state: the driver as MercuryITC.__init__ leaves it            *)
(* ------------------------------------------------------------------ *)
\* self.modules of a driver that has the attribute, and of one that has not
ModuleList(list) == [has |-> TRUE, list |-> list]

NoModules == [has |-> FALSE, list |-> <<>>]

Reachable == {1} \cup Range(modules.list)

\* what the root and the modules of self.modules hold cached, by address
ReachCached ==
    UNION {{<< objs[o].address, n >> : n \in DOMAIN objs[o].cache} : o \in Reachable}

InitCommon ==
    /\ closed = {}
    /\ lockOwner = 0
    /\ lockCount = 0
    /\ inbuf = <<>>
    /\ outbuf = <<>>
    /\ _instances = <<>>
    /\ made = <<>>
    /\ dev = IF "dry" \in focus THEN [DevInit EXCEPT ![<< aH1, nPWR >>] = sNA] ELSE DevInit
    /\ th = [t \in Threads |-> Idle]
    /\ nops = 0
    /\ lastEv = <<>>
    /\ origin = <<>>
    /\ preDisc = {}

\* connect() succeeded in the constructor: the session is open, discovery done
InitConnected ==
    /\ connection = 1
    /\ nsess = 1
    /\ objs = << RootObj >> \o _init_modules(CatText).mods
    /\ modules = ModuleList([i \in 1..Len(_init_modules(CatText).mods) |-> i + 1])

\* rm.open_resource raised in the constructor's connect() (the failure is
\* logged, not raised): _init_modules never ran, the driver has no modules
\* attribute
InitFailed ==
    /\ connection = 0
    /\ nsess = 0
    /\ objs = << RootObj >>
    /\ modules = NoModules

\* rm.open_resource returned and the catalogue query of _init_modules timed
\* out: connect() catches it and sets self.connection = None; the session stays
\* open, self.modules is the empty list _init_modules began with
InitTimedOut ==
    /\ "slow" \in focus
    /\ connection = 0
    /\ nsess = 1
    /\ objs = << RootObj >>
    /\ modules = ModuleList(<<>>)

Init ==
    /\ focus \in Scenarios
    /\ InitConnected \/ InitFailed \/ InitTimedOut
    /\ InitCommon

(* ------------------------------------------------------------------ *)
(* The lock                                                             *)
(* ------------------------------------------------------------------ *)
\* with self._lock: an RLock is free, or already held by this thread
\* fault: the lock excludes nobody
LockFree(t) == TRUE

\* the RLock is free, or held by the thread itself
CanAcquire(t) == lockOwner \in {0, t}

Acquire(t) ==
    /\ lockOwner' = t
    /\ lockCount' = lockCount + 1

\* fault: leaving a with-block nested in another gives the lock up one level only
ReleaseOnce(t, n) ==
    /\ lockCount' = lockCount - 1
    /\ lockOwner' = IF lockCount - 1 = 0 THEN 0 ELSE t

\* leaving n nested with self._lock blocks, normally or by an exception
Release(t, n) ==
    /\ lockCount' = lockCount - n
    /\ lockOwner' = IF lockCount - n = 0 THEN 0 ELSE t

\* the calls a thread may repeat without end in the runs of LiveScenarios:
\* a catalogue read and a disconnect leave nothing behind that grows with
\* their number (no session, no module, no request left on the wire, no new
\* object in a cache)
Repeatable == {"cat", "disconnect"}

\* what a call takes of the MaxOps calls of a run
Cost(kind) == IF "live" \in focus /\ kind \in Repeatable THEN 0 ELSE 1

\* a thread is free to make its next call; the threads are alike, so they are
\* numbered in the order of their first calls
CanStart(t) ==
    /\ th[t].pc = "done"
    /\ nops < MaxOps
    /\ t > 1 => th[t - 1].kind # "none"

(* ------------------------------------------------------------------ *)
(* Property access                                                      *)
(* ------------------------------------------------------------------ *)
Finish(t, rec, L) ==
    /\ th' = [th EXCEPT ![t] = rec]
    /\ lastEv' = Note(rec, L)

Begin(t, rec0) ==
    /\ Finish(t, Drive([rec0 EXCEPT !.prev = Ev(lastEv, << rec0.obj, Getter(rec0.prop).name >>)],
                       objs, TRUE), lastEv)
    /\ nops' = nops + Cost(rec0.kind)
    /\ UNCHANGED << connection, nsess, closed, modules, objs, lockOwner, lockCount,
                    inbuf, outbuf, dev, origin, preDisc, focus,
                    _instances, made >>

\* a property body goes on after a look-up or a store: its next look-up in
\* self._cache, with what the cache holds by now
Continue(t) ==
    /\ th[t].pc = "run"
    /\ Finish(t, Drive(th[t], objs, TRUE), lastEv)
    /\ UNCHANGED << connection, nsess, closed, modules, objs, lockOwner, lockCount,
                    inbuf, outbuf, dev, nops, origin, preDisc, focus,
                    _instances, made >>

\* the caller's object is one the run works on
OnFocus(o) == focus \cap ({"SYS"} \cup ModuleClasses) = {} \/ objs[o].cls \in focus

\* x = obj.prop
StartGet(t, o, p) ==
    /\ CanStart(t)
    /\ OnFocus(o)
    /\ p \in PropsOf(objs[o].cls) \cap focus
    /\ Begin(t, NewRec("get", o, p, <<>>, FALSE))

\* obj.prop = v; same: v is the very object the cache holds
StartSet(t, o, p, v, same) ==
    /\ CanStart(t)
    /\ OnFocus(o)
    /\ p \in PropsOf(objs[o].cls) \cap focus \cap Writable
    /\ v \in Vals(p)
    /\ same => /\ SetterCached(p)
               /\ Getter(p).name \in DOMAIN objs[o].cache
               /\ objs[o].cache[Getter(p).name] = v
    /\ Begin(t, [NewRec("set", o, p, v, same) EXCEPT
                    !.held = IF same THEN Gen(objs[o], Getter(p).name) ELSE 0])

\* repr(module)
StartRepr(t, o) ==
    /\ CanStart(t)
    /\ "repr" \in focus
    /\ OnFocus(o)
    /\ objs[o].cls \in ModuleClasses
    /\ Begin(t, NewRec("repr", o, "nick", <<>>, FALSE))

\* the texts a caller's query(q) sets property p to; the empty one stands for
\* a READ
QueryTexts(p) ==
    IF p \in Writable THEN {<<>>} \cup DevDomain(Getter(p).name) ELSE {<<>>}

\* obj.query(q), q the READ of property p (v empty) or its SET to the text v
RawQuery(t, o, p, v) ==
    /\ CanStart(t)
    /\ "raw" \in focus
    /\ OnFocus(o)
    /\ p \in PropsOf(objs[o].cls) \cap focus
    /\ v \in QueryTexts(p)
    /\ th' = [th EXCEPT ![t] = Drive(NewRec("query", o, p, v, FALSE), objs, TRUE)]
    /\ nops' = nops + 1
    /\ UNCHANGED << connection, nsess, closed, modules, objs, lockOwner, lockCount,
                    inbuf, outbuf, dev, lastEv, origin, preDisc, focus,
                    _instances, made >>

\* driver.cat
StartCat(t) ==
    /\ CanStart(t)
    /\ "cat" \in focus
    /\ th' = [th EXCEPT ![t] = Drive(NewRec("cat", 1, "cat", <<>>, FALSE), objs, TRUE)]
    /\ nops' = nops + Cost("cat")
    /\ UNCHANGED << connection, nsess, closed, modules, objs, lockOwner, lockCount,
                    inbuf, outbuf, dev, lastEv, origin, preDisc, focus,
                    _instances, made >>

Request(id, item) ==
    LET addr == objs[item.obj].address
    IN  IF item.do = "read"
        THEN [by |-> id, late |-> FALSE, verb |-> "READ", addr |-> addr, name |-> item.name,
              val |-> <<>>, line |-> ReadCmd(addr, item.name)]
        ELSE IF item.conv = "none"
        THEN [by |-> id, late |-> FALSE, verb |-> "RST", addr |-> addr, name |-> item.name,
              val |-> <<>>, line |-> sSET \o Colon \o addr \o Colon \o item.name]
        ELSE [by |-> id, late |-> FALSE, verb |-> "SET", addr |-> addr, name |-> item.name,
              val |-> ValueStr(item.conv, item.value),
              line |-> SetCmd(addr, item.name, ValueStr(item.conv, item.value))]

\* MercuryITC.query up to connection.query's write: take the lock, check the
\* connection, send the request line
Send(t, item) ==
    /\ inbuf' = Append(inbuf, Request(t, item))
    /\ th' = [th EXCEPT ![t] = [@ EXCEPT !.pc = "sent", !.nx = @ + 1,
                                   !.nset = @ + (IF item.do = "set" THEN 1 ELSE 0),
                                   !.q = << objs[item.obj].address, item.name >>]]

QuerySend(t) ==
    /\ th[t].pc = "call"
    /\ th[t].kind \in Planned
    /\ CanAcquire(t)
    /\ IF connection = 0
       THEN /\ Finish(t, [Fin(th[t]) EXCEPT !.status = "ConnectionError"], lastEv)
            /\ UNCHANGED << lockOwner, lockCount, inbuf >>
       ELSE /\ Acquire(t)
            /\ Send(t, Plan(th[t], objs))
            /\ UNCHANGED lastEv
    /\ UNCHANGED << connection, nsess, closed, modules, objs, outbuf, dev, nops,
                    origin, preDisc, focus,
                    _instances, made >>

\* what the call does with the response line of its query
AfterRead(r1, O, item, c) ==
    IF ~c.ok THEN [Fin(r1) EXCEPT !.status = "convert"]
    ELSE IF item.cached THEN [r1 EXCEPT !.pc = "store", !.tostore = c.v]
    ELSE Drive([r1 EXCEPT !.got = Append(@, c.v)], O, FALSE)

\* fault: the value the caller passed is stored, not the confirmed one
AfterWriteAsked(r1, O, item, w) ==
    IF ~w.ok THEN [Fin(r1) EXCEPT !.status = w.why]
    ELSE IF item.cached THEN [r1 EXCEPT !.pc = "store", !.tostore = r1.val]
    ELSE Drive([r1 EXCEPT !.didset = TRUE, !.tostore = r1.val], O, FALSE)

AfterWrite(r1, O, item, w) ==
    IF ~w.ok THEN [Fin(r1) EXCEPT !.status = w.why]
    ELSE IF item.cached THEN [r1 EXCEPT !.pc = "store", !.tostore = w.v]
    ELSE Drive([r1 EXCEPT !.didset = TRUE, !.tostore = w.v], O, FALSE)

\* MercuryITC.rst.setter after its query: resp[-1] != 'VALID' raises
AfterReset(r1, O, resp) ==
    IF Last(split(resp.line, Colon, -1)) # sVALID THEN [Fin(r1) EXCEPT !.status = "rejected"]
    ELSE Drive([r1 EXCEPT !.didset = TRUE], O, FALSE)

AfterItem(r1, resp, O, item) ==
    IF item.raw THEN Drive([r1 EXCEPT !.got = Append(@, resp.line)], O, FALSE)
    ELSE IF item.do = "read"
    THEN AfterRead(r1, O, item, _read_property(resp.line, item.conv, item.ign))
    ELSE IF item.conv = "none" THEN AfterReset(r1, O, resp)
    ELSE AfterWrite(r1, O, item, _write_property(resp.line, item.conv))

AfterQuery(rec, resp, O) ==
    AfterItem([rec EXCEPT !.recv = Received(resp), !.line = resp.line], resp, O, Plan(rec, O))

\* MercuryITC.query from connection.query's read: one response line, then
\* connection.clear(), then the lock is released
QueryRecv(t) ==
    /\ th[t].pc = "sent"
    /\ th[t].kind \notin {"connect", "read"}
    /\ outbuf # <<>>
    /\ outbuf' = <<>>
    /\ Release(t, 1)
    /\ Finish(t, AfterQuery(th[t], Head(outbuf), objs), lastEv)
    /\ UNCHANGED << connection, nsess, closed, modules, objs, inbuf, dev, nops,
                    origin, preDisc, focus,
                    _instances, made >>

\* the request lines of thread t still unanswered are from now on late
Late(buf, t) == [i \in 1..Len(buf) |-> IF buf[i].by = t THEN [buf[i] EXCEPT !.late = TRUE]
                                        ELSE buf[i]]

\* connection.query raises on the read timeout: no clear(), the lock is released
QueryTimeout(t) ==
    /\ th[t].pc = "sent"
    /\ th[t].kind \notin {"connect", "read"}
    /\ "slow" \in focus
    /\ outbuf = <<>>
    /\ Release(t, 1)
    /\ inbuf' = Late(inbuf, t)
    /\ Finish(t, [Fin(th[t]) EXCEPT !.status = "Timeout"], lastEv)
    /\ UNCHANGED << connection, nsess, closed, modules, objs, outbuf, dev, nops,
                    origin, preDisc, focus,
                    _instances, made >>

\* the value _read_cached_property / _write_cached_property puts in the cache
CacheValue(rec) == rec.tostore

\* self._cache[name] = prop, and the call goes on
Stored(rec, item) ==
    IF item.do = "read"
    THEN [rec EXCEPT !.stored = @ \cup {<< item.obj, item.name >>},
                     !.got = Append(@, rec.tostore)]
    ELSE [rec EXCEPT !.stored = @ \cup {<< item.obj, item.name >>}, !.didset = TRUE]

\* history: a read made inside a setter leaves a read event on its own name
InnerRead(rec, item, L) ==
    IF item.do = "read" /\ rec.kind \in {"set", "repr"}
    THEN Put(L, << item.obj, item.name >>,
             [NoEv EXCEPT !.ev = "read", !.nx = 1, !.miss = TRUE, !.val = rec.tostore])
    ELSE L

StoreItem(t, item, O) ==
    /\ objs' = O
    /\ Finish(t, Drive(Stored(th[t], item), O, FALSE), InnerRead(th[t], item, lastEv))
    /\ origin' = Put(origin, << item.obj, item.name >>,
                     [line |-> th[t].line, how |-> item.do, q |-> th[t].q])

StoreAt(t, item) ==
    StoreItem(t, item, [objs EXCEPT ![item.obj].cache = Put(@, item.name, CacheValue(th[t])),
                                    ![item.obj].gen = Put(@, item.name,
                                                          Gen(objs[item.obj], item.name) + 1)])

Store(t) ==
    /\ th[t].pc = "store"
    /\ StoreAt(t, Plan(th[t], objs))
    /\ UNCHANGED << connection, nsess, closed, modules, lockOwner, lockCount, inbuf,
                    outbuf, dev, nops, preDisc, focus,
                    _instances, made >>

\* _write_cached_property, self._cache[name] is not value: the entry may have
\* gone since the membership test (KeyError), may be the caller's object (the
\* write is skipped), or the write goes on
WriteTestItem(t, item, one) ==
    /\ one => MayBeShared(item.conv, item.value)
    /\ Finish(t, IF item.name \notin DOMAIN objs[th[t].obj].cache
                 THEN [Fin(th[t]) EXCEPT !.status = "KeyError"]
                 ELSE IF WriteSkipped(th[t], item, objs, one)
                 THEN Drive([th[t] EXCEPT !.didset = TRUE, !.skipped = TRUE], objs, FALSE)
                 ELSE [th[t] EXCEPT !.pc = "call"], lastEv)

WriteTest(t) ==
    /\ th[t].pc = "test"
    /\ \E one \in BOOLEAN : WriteTestItem(t, Plan(th[t], objs), one)
    /\ UNCHANGED << connection, nsess, closed, modules, objs, lockOwner, lockCount, inbuf,
                    outbuf, dev, nops, origin, preDisc, focus, _instances, made >>

\* del obj.prop: _delete_cached_property
Delete(t, o, p) ==
    /\ CanStart(t)
    /\ OnFocus(o)
    /\ p \in PropsOf(objs[o].cls) \cap focus \cap Deletable
    /\ LET name == Getter(p).name
           key == << o, name >>
       IN  /\ objs' = [objs EXCEPT ![o].cache = Drop(@, {name})]
           /\ lastEv' = Put(lastEv, key, [NoEv EXCEPT !.ev = "del",
                                                      !.had = (name \in DOMAIN objs[o].cache)])
           /\ origin' = Drop(origin, {key})
           /\ preDisc' = IF o \in Reachable THEN preDisc \ {<< objs[o].address, name >>}
                         ELSE preDisc
           /\ th' = [th EXCEPT ![t] = [Fin(NewRec("del", o, p, <<>>, FALSE)) EXCEPT
                                          !.status = "ok", !.prev = Ev(lastEv, key)]]
    /\ nops' = nops + 1
    /\ UNCHANGED << connection, nsess, closed, modules, lockOwner, lockCount, inbuf,
                    outbuf, dev, focus,
                    _instances, made >>

CachedNames(cls) == {Getter(p).name : p \in {q \in PropsOf(cls) : Getter(q).cached}}

\* obj.clear_cache()
ClearCache(t, o) ==
    /\ CanStart(t)
    /\ OnFocus(o)
    /\ PropsOf(objs[o].cls) \cap focus # {}
    /\ LET keys == {<< o, n >> : n \in CachedNames(objs[o].cls)}
       IN  /\ objs' = [objs EXCEPT ![o].cache = <<>>]
           /\ lastEv' = [k \in DOMAIN lastEv \cup keys |->
                            IF k \in keys THEN [NoEv EXCEPT !.ev = "clear"] ELSE lastEv[k]]
           /\ origin' = Drop(origin, keys)
           /\ preDisc' = IF o \in Reachable
                         THEN {k \in preDisc : k[1] # objs[o].address} ELSE preDisc
    /\ th' = [th EXCEPT ![t] = [Fin(NewRec("clear", o, "", <<>>, FALSE)) EXCEPT
                                   !.status = "ok"]]
    /\ nops' = nops + 1
    /\ UNCHANGED << connection, nsess, closed, modules, lockOwner, lockCount, inbuf,
                    outbuf, dev, focus,
                    _instances, made >>

(* ------------------------------------------------------------------ *)
(* Connection                                                           *)
(* ------------------------------------------------------------------ *)
\* a call of the driver that begins with `with self._lock`: it stands before
\* the with statement until the RLock lets it in
Locked(t, rec) ==
    /\ CanStart(t)
    /\ th' = [th EXCEPT ![t] = [rec EXCEPT !.pc = "call", !.mods = <<>>]]
    /\ nops' = nops + Cost(rec.kind)
    /\ UNCHANGED << connection, nsess, closed, modules, objs, lockOwner, lockCount,
                    inbuf, outbuf, dev, lastEv, origin, preDisc, focus,
                    _instances, made >>

\* thread t stands before the with self._lock of a call of this kind
Waits(t, kind) == th[t].pc = "call" /\ th[t].kind = kind

\* driver.connect()
StartConnect(t) ==
    /\ "conn" \in focus
    /\ Locked(t, NewRec("connect", 1, "", <<>>, FALSE))

\* driver.disconnect()
StartDisconnect(t) ==
    /\ "conn" \in focus
    /\ Locked(t, NewRec("disconnect", 1, "", <<>>, FALSE))

\* connect() is let in and rm.open_resource raises: every exception is caught
\* and logged, self.connection = None (an earlier session is dropped, not
\* closed), and the with block is left
ConnectFail(t) ==
    /\ Waits(t, "connect")
    /\ CanAcquire(t)
    /\ connection' = 0
    /\ inbuf' = <<>>
    /\ outbuf' = <<>>
    /\ th' = [th EXCEPT ![t] = [Fin(@) EXCEPT !.status = "ok", !.caught = "open"]]
    /\ UNCHANGED << nsess, closed, modules, objs, lockOwner, lockCount, dev, nops,
                    lastEv, origin, preDisc, focus,
                    _instances, made >>

\* connect() is let in and rm.open_resource returns: the lock is held once and
\* the new session replaces self.connection
ConnectOpen(t) ==
    /\ Waits(t, "connect")
    /\ CanAcquire(t)
    /\ Acquire(t)
    /\ nsess' = nsess + 1
    /\ connection' = nsess + 1
    /\ inbuf' = <<>>
    /\ outbuf' = <<>>
    /\ th' = [th EXCEPT ![t] = [@ EXCEPT !.pc = "init"]]
    /\ UNCHANGED << closed, modules, objs, dev, nops, lastEv, origin, preDisc, focus,
                    _instances, made >>

\* _init_modules, called by connect() inside its with block: self.modules = [],
\* then self.cat, whose query() comes to `with self._lock` in its turn, with
\* the lock held by connect(); once let in it checks the connection and writes
\* the catalogue request
ConnectInit(t) ==
    /\ th[t].pc = "init"
    /\ CanAcquire(t)
    /\ Acquire(t)
    /\ modules' = ModuleList(<<>>)
    /\ inbuf' = Append(inbuf, Request(t, [do |-> "read", obj |-> 1, name |-> nCAT]))
    /\ th' = [th EXCEPT ![t] = [@ EXCEPT !.pc = "sent", !.nx = 1]]
    /\ UNCHANGED << connection, nsess, closed, objs, outbuf, dev, nops, lastEv, origin,
                    preDisc, focus, _instances, made >>

\* the catalogue arrives: _init_modules builds the modules; an exception in it
\* is caught by connect(), which sets self.connection = None
ConnectRecv(t) ==
    /\ th[t].pc = "sent"
    /\ th[t].kind = "connect"
    /\ outbuf # <<>>
    /\ outbuf' = <<>>
    /\ Release(t, 2)
    /\ LET im == _init_modules(Head(outbuf).line)
       IN  /\ objs' = objs \o im.mods
           /\ modules' = ModuleList([i \in 1..Len(im.mods) |-> Len(objs) + i])
           /\ connection' = IF im.ok THEN connection ELSE 0
           /\ inbuf' = IF im.ok THEN inbuf ELSE <<>>
    /\ th' = [th EXCEPT ![t] = [@ EXCEPT !.pc = "done", !.status = "ok",
                                   !.recv = Received(Head(outbuf)),
                                   !.caught = IF _init_modules(Head(outbuf).line).ok
                                              THEN "none" ELSE "discovery"]]
    /\ UNCHANGED << nsess, closed, dev, nops, lastEv, origin, preDisc, focus,
                    _instances, made >>

\* the catalogue query times out: caught by connect(), self.connection = None
ConnectTimeout(t) ==
    /\ th[t].pc = "sent"
    /\ th[t].kind = "connect"
    /\ "slow" \in focus
    /\ outbuf = <<>>
    /\ connection' = 0
    /\ inbuf' = <<>>
    /\ Release(t, 2)
    /\ th' = [th EXCEPT ![t] = [@ EXCEPT !.pc = "done", !.status = "ok",
                                   !.caught = "timeout"]]
    /\ UNCHANGED << nsess, closed, modules, objs, outbuf, dev, nops, lastEv,
                    origin, preDisc, focus,
                    _instances, made >>

\* disconnect() is let in: the session is closed if there is one, and the
\* with block is left
Disconnect(t) ==
    /\ Waits(t, "disconnect")
    /\ CanAcquire(t)
    /\ IF connection # 0
       THEN /\ closed' = closed \cup {connection}
            /\ connection' = 0
            /\ inbuf' = <<>>
            /\ outbuf' = <<>>
            /\ preDisc' = ReachCached
       ELSE UNCHANGED << closed, connection, inbuf, outbuf, preDisc >>
    /\ th' = [th EXCEPT ![t] = [Fin(@) EXCEPT !.status = "ok"]]
    /\ UNCHANGED << nsess, modules, objs, lockOwner, lockCount, dev, nops, lastEv,
                    origin, focus,
                    _instances, made >>

(* ------------------------------------------------------------------ *)
(* The public write(q) and read()                                       *)
(* ------------------------------------------------------------------ *)
\* driver.write(q), module.write(q): q reads property p of object o
StartWrite(t, o, p) ==
    /\ "raw" \in focus
    /\ OnFocus(o)
    /\ p \in PropsOf(objs[o].cls) \cap focus
    /\ Locked(t, NewRec("write", o, p, <<>>, FALSE))

\* driver.read(), module.read(); same: the caller's last call was a write(q)
\* that returned
StartRead(t) ==
    /\ "raw" \in focus
    /\ Locked(t, [NewRec("read", 1, "", <<>>, FALSE) EXCEPT
                     !.same = (th[t].kind = "write" /\ th[t].status = "ok")])

\* MercuryITC.write(q) is let in: the connection is checked and
\* connection.write(q) puts the request on the wire; the with block is left
RawWrite(t) ==
    /\ Waits(t, "write")
    /\ CanAcquire(t)
    /\ IF connection = 0
       THEN /\ th' = [th EXCEPT ![t] = [Fin(@) EXCEPT !.status = "ConnectionError"]]
            /\ UNCHANGED inbuf
       ELSE /\ inbuf' = Append(inbuf, Request(t, ReadItem(th[t].obj, th[t].prop)))
            /\ th' = [th EXCEPT ![t] = [Fin(@) EXCEPT !.status = "ok", !.nx = 1]]
    /\ UNCHANGED << connection, nsess, closed, modules, objs, lockOwner, lockCount,
                    outbuf, dev, nops, lastEv, origin, preDisc, focus,
                    _instances, made >>

\* MercuryITC.read() is let in: the connection is checked; connection.read()
\* then waits for a line with the lock held
RawRead(t) ==
    /\ Waits(t, "read")
    /\ CanAcquire(t)
    /\ IF connection = 0
       THEN /\ th' = [th EXCEPT ![t] = [Fin(@) EXCEPT !.status = "ConnectionError"]]
            /\ UNCHANGED << lockOwner, lockCount >>
       ELSE /\ th' = [th EXCEPT ![t] = [@ EXCEPT !.pc = "sent"]]
            /\ Acquire(t)
    /\ UNCHANGED << connection, nsess, closed, modules, objs, inbuf, outbuf, dev, nops,
                    lastEv, origin, preDisc, focus, _instances, made >>

\* connection.read() returns the first line the session holds; the lock is
\* released
RawReadRecv(t) ==
    /\ th[t].pc = "sent"
    /\ th[t].kind = "read"
    /\ outbuf # <<>>
    /\ th' = [th EXCEPT ![t] = [Fin(th[t]) EXCEPT !.status = "ok",
                                                  !.recv = Received(Head(outbuf)),
                                                  !.ret = Head(outbuf).line]]
    /\ outbuf' = Tail(outbuf)
    /\ Release(t, 1)
    /\ UNCHANGED << connection, nsess, closed, modules, objs, inbuf, dev, nops, lastEv,
                    origin, preDisc, focus, _instances, made >>

\* connection.read() raises on the read timeout: no line came, because no
\* request is pending or because the instrument is slow
RawReadTimeout(t) ==
    /\ th[t].pc = "sent"
    /\ th[t].kind = "read"
    /\ outbuf = <<>>
    /\ inbuf = <<>> \/ "slow" \in focus
    /\ th' = [th EXCEPT ![t] = [Fin(th[t]) EXCEPT !.status = "Timeout"]]
    /\ Release(t, 1)
    /\ UNCHANGED << connection, nsess, closed, modules, objs, inbuf, outbuf, dev, nops,
                    lastEv, origin, preDisc, focus, _instances, made >>

(* ------------------------------------------------------------------ *)
(* The instrument                                                       *)
(* ------------------------------------------------------------------ *)
Answer(line, ans, conf) ==
    /\ outbuf' = Append(outbuf, [by |-> Head(inbuf).by, late |-> Head(inbuf).late,
                                 line |-> line, ans |-> ans, conf |-> conf])
    /\ inbuf' = Tail(inbuf)
    /\ UNCHANGED << connection, nsess, closed, modules, objs, lockOwner, lockCount,
                    th, nops, lastEv, origin, preDisc, focus,
                    _instances, made >>

\* the instrument answers a READ with the value it holds
DeviceRead ==
    /\ inbuf # <<>>
    /\ Head(inbuf).verb = "READ"
    /\ LET r == Head(inbuf)
       IN  Answer(sSTAT \o Colon \o r.addr \o Colon \o r.name \o Colon
                  \o dev[<< r.addr, r.name >>], "value", <<>>)
    /\ UNCHANGED dev

\* the instrument accepts a SET and confirms the value c it took
DeviceConfirm(c) ==
    /\ inbuf # <<>>
    /\ Head(inbuf).verb = "SET"
    /\ c \in DevDomain(Head(inbuf).name)
    /\ LET r == Head(inbuf)
       IN  /\ dev' = [dev EXCEPT ![<< r.addr, r.name >>] = c]
           /\ Answer(sSTAT \o Colon \o sSET \o Colon \o r.addr \o Colon \o r.name
                     \o Colon \o c \o Colon \o sVALID, "valid", c)

\* the instrument takes SET:SYS:RST
DeviceReset ==
    /\ inbuf # <<>>
    /\ Head(inbuf).verb = "RST"
    /\ LET r == Head(inbuf)
       IN  Answer(sSTAT \o Colon \o sSET \o Colon \o r.addr \o Colon \o r.name
                  \o Colon \o sVALID, "valid", <<>>)
    /\ UNCHANGED dev

\* the instrument refuses a SET
DeviceReject ==
    /\ inbuf # <<>>
    /\ Head(inbuf).verb \in {"SET", "RST"}
    /\ LET r == Head(inbuf)
       IN  Answer(sSTAT \o Colon \o sSET \o Colon \o r.addr \o Colon \o r.name
                  \o Colon \o r.val \o Colon \o sINVALID, "invalid", <<>>)
    /\ UNCHANGED dev

(* ------------------------------------------------------------------ *)
(* Specification                                                        *)
(* ------------------------------------------------------------------ *)
Next ==
    \/ \E t \in Threads, o \in 1..Len(objs), p \in focus : StartGet(t, o, p)
    \/ \E t \in Threads, o \in 1..Len(objs), p \in focus, same \in BOOLEAN :
          \E v \in Vals(p) : StartSet(t, o, p, v, same)
    \/ \E t \in Threads : Continue(t)
    \/ \E t \in Threads : StartCat(t)
    \/ \E t \in Threads, o \in 1..Len(objs) : StartRepr(t, o)
    \/ \E t \in Threads, o \in 1..Len(objs), p \in focus :
          \E v \in QueryTexts(p) : RawQuery(t, o, p, v)
    \/ \E t \in Threads : QuerySend(t)
    \/ \E t \in Threads : QueryRecv(t)
    \/ \E t \in Threads : QueryTimeout(t)
    \/ \E t \in Threads : Store(t)
    \/ \E t \in Threads : WriteTest(t)
    \/ \E t \in Threads, o \in 1..Len(objs), p \in focus : Delete(t, o, p)
    \/ \E t \in Threads, o \in 1..Len(objs) : ClearCache(t, o)
    \/ \E t \in Threads : StartConnect(t)
    \/ \E t \in Threads : ConnectFail(t)
    \/ \E t \in Threads : ConnectOpen(t)
    \/ \E t \in Threads : ConnectInit(t)
    \/ \E t \in Threads : ConnectRecv(t)
    \/ \E t \in Threads : ConnectTimeout(t)
    \/ \E t \in Threads : StartDisconnect(t)
    \/ \E t \in Threads : Disconnect(t)
    \/ \E t \in Threads, o \in 1..Len(objs), p \in focus : StartWrite(t, o, p)
    \/ \E t \in Threads : RawWrite(t)
    \/ \E t \in Threads : StartRead(t)
    \/ \E t \in Threads : RawRead(t)
    \/ \E t \in Threads : RawReadRecv(t)
    \/ \E t \in Threads : RawReadTimeout(t)
    \/ DeviceRead
    \/ \E c \in UNION {DevDomain(Getter(p).name) : p \in Writable} : DeviceConfirm(c)
    \/ DeviceReset
    \/ DeviceReject

Spec == Init /\ [][Next]_vars

(* ------------------------------------------------------------------ *)
(* Signal reads over the texts an instrument may answer with            *)
(* ------------------------------------------------------------------ *)
MaxLen == 3

\* the value texts of SIG:TEMP: digits, the point, a sign, a unit letter
ScaledInputs == UNION {[1..n -> {"1", "2", ".", "-", "K"}] : n \in 0..MaxLen}

\* a connected driver; the temperature sensor's SIG:TEMP reads any of the texts
InitScaled ==
    /\ InitConnected
    /\ closed = {}
    /\ lockOwner = 0
    /\ lockCount = 0
    /\ inbuf = <<>>
    /\ outbuf = <<>>
    /\ \E s \in ScaledInputs : dev = [DevInit EXCEPT ![<< aT1, nSIGTEMP >>] = s]
    /\ th = [t \in Threads |-> Idle]
    /\ nops = 0
    /\ lastEv = <<>>
    /\ origin = <<>>
    /\ preDisc = {}
    /\ focus = {"temp"}
    /\ _instances = <<>>
    /\ made = <<>>

NextScaled ==
    \/ \E t \in Threads, o \in 1..Len(objs) : StartGet(t, o, "temp")
    \/ \E t \in Threads : QuerySend(t)
    \/ \E t \in Threads : QueryRecv(t)
    \/ DeviceRead

SpecScaled == InitScaled /\ [][NextScaled]_vars

(* ------------------------------------------------------------------ *)
(* Discovery over the catalogues an instrument may answer with         *)
(* ------------------------------------------------------------------ *)
MaxEntries == 3

\* a catalogue entry: the module's uid and its class token; PRES is a class
\* the driver has no branch for
CatEntries ==
    {[uid |-> u, token |-> k] : u \in {<<"M","1">>, <<"M","2">>},
                                k \in {sTEMP, sAUX, sHTR, <<"P","R","E","S">>}}

CatInputs == UNION {[1..n -> CatEntries] : n \in 0..MaxEntries}

\* the value of READ:SYS:CAT on an instrument with these entries
CatOf(E) == join(Colon, [i \in 1..Len(E) |-> sDEVpre \o E[i].uid \o Colon \o E[i].token])

\* the constructor could not connect; the instrument, now reachable, holds
\* any of the catalogues
InitDisc ==
    /\ InitFailed
    /\ closed = {}
    /\ lockOwner = 0
    /\ lockCount = 0
    /\ inbuf = <<>>
    /\ outbuf = <<>>
    /\ \E E \in CatInputs : dev = [DevInit EXCEPT ![<< sSYS, nCAT >>] = CatOf(E)]
    /\ th = [t \in Threads |-> Idle]
    /\ nops = 0
    /\ lastEv = <<>>
    /\ origin = <<>>
    /\ preDisc = {}
    /\ focus = {"conn"}
    /\ _instances = <<>>
    /\ made = <<>>

NextDisc ==
    \/ \E t \in Threads : StartConnect(t)
    \/ \E t \in Threads : ConnectOpen(t)
    \/ \E t \in Threads : ConnectInit(t)
    \/ \E t \in Threads : ConnectRecv(t)
    \/ DeviceRead

SpecDisc == InitDisc /\ [][NextDisc]_vars

(* ------------------------------------------------------------------ *)
(* Threads contending for the lock, fairly scheduled                    *)
(* ------------------------------------------------------------------ *)
\* the runs that connect, disconnect, read, write and use write(q) and read()
\* from several threads, one of them over a transport that may time out. A run
\* makes MaxOps calls that are counted and any number of the Repeatable ones, so
\* a thread may wait for the lock while the other takes it again and again
LiveScenarios ==
    {{"serl", "conn", "slow", "SYS", "live"},
     {"nick", "conn", "cat", "raw", "HTR", "live"}}

\* the catalogue a later connect() is answered with: the heater alone
LiveCat == <<"D","E","V",":","H","1",":","H","T","R">>

InitLive ==
    /\ focus \in LiveScenarios
    /\ InitConnected \/ InitFailed \/ InitTimedOut
    /\ closed = {}
    /\ lockOwner = 0
    /\ lockCount = 0
    /\ inbuf = <<>>
    /\ outbuf = <<>>
    /\ _instances = <<>>
    /\ made = <<>>
    /\ dev = [DevInit EXCEPT ![<< sSYS, nCAT >>] = LiveCat]
    /\ th = [t \in Threads |-> Idle]
    /\ nops = 0
    /\ lastEv = <<>>
    /\ origin = <<>>
    /\ preDisc = {}

NextLive ==
    \/ \E t \in Threads, o \in 1..Len(objs), p \in focus : StartGet(t, o, p)
    \/ \E t \in Threads, o \in 1..Len(objs), p \in focus, same \in BOOLEAN :
          \E v \in Vals(p) : StartSet(t, o, p, v, same)
    \/ \E t \in Threads : StartCat(t)
    \/ \E t \in Threads : QuerySend(t)
    \/ \E t \in Threads : QueryRecv(t)
    \/ \E t \in Threads : QueryTimeout(t)
    \/ \E t \in Threads : Store(t)
    \/ \E t \in Threads : WriteTest(t)
    \/ \E t \in Threads : StartConnect(t)
    \/ \E t \in Threads : ConnectFail(t)
    \/ \E t \in Threads : ConnectOpen(t)
    \/ \E t \in Threads : ConnectInit(t)
    \/ \E t \in Threads : ConnectRecv(t)
    \/ \E t \in Threads : ConnectTimeout(t)
    \/ \E t \in Threads : StartDisconnect(t)
    \/ \E t \in Threads : Disconnect(t)
    \/ \E t \in Threads, o \in 1..Len(objs), p \in focus : StartWrite(t, o, p)
    \/ \E t \in Threads : RawWrite(t)
    \/ \E t \in Threads : StartRead(t)
    \/ \E t \in Threads : RawRead(t)
    \/ \E t \in Threads : RawReadRecv(t)
    \/ \E t \in Threads : RawReadTimeout(t)
    \/ DeviceRead
    \/ \E c \in UNION {DevDomain(Getter(p).name) : p \in Writable} : DeviceConfirm(c)
    \/ DeviceReject

\* with self._lock, in query, connect, disconnect, write and read alike: a
\* thread that stands before the with statement is let in. The RLock is free
\* again and again while another thread goes on calling, so the scheduling is
\* fair to the waiting thread when it is let in at one of these times
LockGranted(t) ==
    /\ nops' = nops
    /\ th[t].pc = "call"
    /\ \/ QuerySend(t)
       \/ ConnectFail(t) \/ ConnectOpen(t)
       \/ Disconnect(t)
       \/ RawWrite(t)
       \/ RawRead(t)

\* a thread that is not waiting for another runs on: the property body goes
\* to its next look-up, connect() to its catalogue query, connection.query and
\* connection.read return the response line or raise the timeout, and the
\* caller stores what it got
Returns(t) ==
    /\ nops' = nops
    /\ th[t].pc \notin {"done", "call"}
    /\ \/ QueryRecv(t) \/ QueryTimeout(t) \/ Store(t) \/ WriteTest(t)
       \/ ConnectInit(t) \/ ConnectRecv(t) \/ ConnectTimeout(t)
       \/ RawReadRecv(t) \/ RawReadTimeout(t)

\* the instrument answers the request it has read
Answers ==
    /\ nops' = nops
    /\ inbuf # <<>>
    /\ IF Head(inbuf).verb = "READ" THEN DeviceRead
       ELSE \/ \E c \in DevDomain(Head(inbuf).name) : DeviceConfirm(c)
            \/ DeviceReject

\* what every step of a call or of the instrument changes: where each thread
\* stands, and what is on the wire
progress == << [t \in Threads |-> th[t].pc], Len(inbuf), Len(outbuf) >>

SpecLive ==
    /\ InitLive
    /\ [][NextLive]_vars
    /\ \A t \in Threads : SF_progress(LockGranted(t)) /\ WF_progress(Returns(t))
    /\ WF_progress(Answers)

(* ------------------------------------------------------------------ *)
(* Several drivers in one process                                       *)
(* ------------------------------------------------------------------ *)
NDrivers == 2

\* the MercuryITC instances of the process; here connection, inbuf and outbuf
\* are kept per driver (each driver has its own session), while lockOwner and
\* lockCount are the one RLock of the class
Drivers == 1..NDrivers

\* fault: each driver has an RLock of its own
OwnLock(t, d) == IF lockOwner \in {0, t} THEN TRUE ELSE th[lockOwner].obj # d

\* with self._lock on driver d: _lock is looked up on the class, __init__
\* never sets it on the instance
SharedLock(t, d) == CanAcquire(t)

\* the catalogue request of thread t as it lies in a driver's transport
CatRequest(t) == [by |-> t, late |-> FALSE, line |-> ReadCmd(sSYS, nCAT)]

\* self.modules after _init_modules appended n modules to the objs that were
ModulesAt(base, n) == ModuleList([i \in 1..n |-> base + i])

\* x = driver.cat on driver d, up to the with statement of query
SharedCall(t, d) ==
    /\ CanStart(t)
    /\ th' = [th EXCEPT ![t] = [Rec("cat", d, "cat", <<>>, FALSE, modules[d].list) EXCEPT
                                   !.pc = "call"]]
    /\ nops' = nops + 1
    /\ UNCHANGED << connection, nsess, closed, modules, objs, lockOwner, lockCount,
                    inbuf, outbuf, dev, lastEv, origin, preDisc, focus,
                    _instances, made >>

\* query: the lock is taken, the connection checked, the request written
SharedSend(t) ==
    /\ Waits(t, "cat")
    /\ SharedLock(t, th[t].obj)
    /\ IF connection[th[t].obj] = 0
       THEN /\ th' = [th EXCEPT ![t] = [Fin(@) EXCEPT !.status = "ConnectionError"]]
            /\ UNCHANGED << lockOwner, lockCount, inbuf >>
       ELSE /\ Acquire(t)
            /\ inbuf' = [inbuf EXCEPT ![th[t].obj] = Append(@, CatRequest(t))]
            /\ th' = [th EXCEPT ![t] = [@ EXCEPT !.pc = "sent", !.nx = @ + 1]]
    /\ UNCHANGED << connection, nsess, closed, modules, objs, outbuf, dev, nops,
                    lastEv, origin, preDisc, focus,
                    _instances, made >>

\* a call on driver d that begins with `with self._lock`, up to the with
\* statement
SharedLocked(t, kind, d) ==
    /\ CanStart(t)
    /\ th' = [th EXCEPT ![t] = [Rec(kind, d, "", <<>>, FALSE, <<>>) EXCEPT !.pc = "call"]]
    /\ nops' = nops + 1
    /\ UNCHANGED << connection, nsess, closed, modules, objs, lockOwner, lockCount,
                    inbuf, outbuf, dev, lastEv, origin, preDisc, focus,
                    _instances, made >>

\* connect() on driver d
SharedConnect(t, d) == SharedLocked(t, "connect", d)

\* connect() is let in: the lock is held once, a new session replaces the
\* driver's connection
SharedOpen(t) ==
    /\ Waits(t, "connect")
    /\ SharedLock(t, th[t].obj)
    /\ Acquire(t)
    /\ nsess' = nsess + 1
    /\ connection' = [connection EXCEPT ![th[t].obj] = nsess + 1]
    /\ inbuf' = [inbuf EXCEPT ![th[t].obj] = <<>>]
    /\ outbuf' = [outbuf EXCEPT ![th[t].obj] = <<>>]
    /\ th' = [th EXCEPT ![t] = [@ EXCEPT !.pc = "init"]]
    /\ UNCHANGED << closed, modules, objs, dev, nops, lastEv, origin, preDisc, focus,
                    _instances, made >>

\* _init_modules empties self.modules; the query of self.cat comes to the
\* lock connect() holds, is let in, and writes the catalogue request
SharedInit(t) ==
    /\ th[t].pc = "init"
    /\ SharedLock(t, th[t].obj)
    /\ Acquire(t)
    /\ modules' = [modules EXCEPT ![th[t].obj] = ModuleList(<<>>)]
    /\ inbuf' = [inbuf EXCEPT ![th[t].obj] = Append(@, CatRequest(t))]
    /\ th' = [th EXCEPT ![t] = [@ EXCEPT !.pc = "sent", !.nx = 1]]
    /\ UNCHANGED << connection, nsess, closed, objs, outbuf, dev, nops, lastEv, origin,
                    preDisc, focus, _instances, made >>

\* the with blocks the call of rec is in while its query runs
Depth(rec) == IF rec.kind = "connect" THEN 2 ELSE 1

\* the response line arrives: connection.clear(), the lock is released; cat
\* returns the line, connect() has _init_modules build the driver's modules
\* from it and returns None
SharedRecv(t) ==
    /\ th[t].pc = "sent"
    /\ outbuf[th[t].obj] # <<>>
    /\ outbuf' = [outbuf EXCEPT ![th[t].obj] = <<>>]
    /\ Release(t, Depth(th[t]))
    /\ IF th[t].kind = "connect"
       THEN /\ objs' = objs \o _init_modules(Head(outbuf[th[t].obj]).line).mods
            /\ modules' = [modules EXCEPT ![th[t].obj] =
                   ModulesAt(Len(objs), Len(_init_modules(Head(outbuf[th[t].obj]).line).mods))]
            /\ connection' = [connection EXCEPT ![th[t].obj] =
                   IF _init_modules(Head(outbuf[th[t].obj]).line).ok THEN @ ELSE 0]
            /\ inbuf' = [inbuf EXCEPT ![th[t].obj] =
                   IF _init_modules(Head(outbuf[th[t].obj]).line).ok THEN @ ELSE <<>>]
            /\ th' = [th EXCEPT ![t] = [Fin(@) EXCEPT !.status = "ok"]]
       ELSE /\ th' = [th EXCEPT ![t] = [Fin(@) EXCEPT !.status = "ok",
                                            !.ret = Head(outbuf[th[t].obj]).line]]
            /\ UNCHANGED << objs, modules, connection, inbuf >>
    /\ UNCHANGED << nsess, closed, dev, nops,
                    lastEv, origin, preDisc, focus,
                    _instances, made >>

\* connection.query raises the timeout: the lock is released; connect()
\* catches it and sets self.connection = None
SharedTimeout(t) ==
    /\ th[t].pc = "sent"
    /\ outbuf[th[t].obj] = <<>>
    /\ inbuf' = [inbuf EXCEPT ![th[t].obj] = IF th[t].kind = "connect" THEN <<>>
                                              ELSE Late(@, t)]
    /\ connection' = [connection EXCEPT ![th[t].obj] = IF th[t].kind = "connect" THEN 0
                                                        ELSE @]
    /\ Release(t, Depth(th[t]))
    /\ th' = [th EXCEPT ![t] = [Fin(@) EXCEPT !.status = IF th[t].kind = "connect"
                                                         THEN "ok" ELSE "Timeout"]]
    /\ UNCHANGED << nsess, closed, modules, objs, outbuf, dev, nops,
                    lastEv, origin, preDisc, focus,
                    _instances, made >>

\* disconnect() on driver d
SharedDisconnect(t, d) == SharedLocked(t, "disconnect", d)

\* disconnect() is let in: the driver's session is closed if it has one
SharedClose(t) ==
    /\ Waits(t, "disconnect")
    /\ SharedLock(t, th[t].obj)
    /\ IF connection[th[t].obj] # 0
       THEN /\ closed' = closed \cup {connection[th[t].obj]}
            /\ connection' = [connection EXCEPT ![th[t].obj] = 0]
            /\ inbuf' = [inbuf EXCEPT ![th[t].obj] = <<>>]
            /\ outbuf' = [outbuf EXCEPT ![th[t].obj] = <<>>]
       ELSE UNCHANGED << closed, connection, inbuf, outbuf >>
    /\ th' = [th EXCEPT ![t] = [Fin(@) EXCEPT !.status = "ok"]]
    /\ UNCHANGED << nsess, modules, objs, lockOwner, lockCount, dev, nops, lastEv,
                    origin, preDisc, focus,
                    _instances, made >>

\* a call standing before `with self._lock` is let in
SharedEnter(t) == SharedSend(t) \/ SharedOpen(t) \/ SharedClose(t)

\* the instrument of driver d answers the catalogue request it has read
SharedAnswer(d) ==
    /\ inbuf[d] # <<>>
    /\ outbuf' = [outbuf EXCEPT ![d] =
                      Append(@, [by |-> Head(inbuf[d]).by, late |-> Head(inbuf[d]).late,
                                 line |-> sSTAT \o Colon \o sSYS \o Colon \o nCAT \o Colon
                                          \o dev[<< sSYS, nCAT >>]])]
    /\ inbuf' = [inbuf EXCEPT ![d] = Tail(@)]
    /\ UNCHANGED << connection, nsess, closed, modules, objs, lockOwner, lockCount,
                    th, nops, dev, lastEv, origin, preDisc, focus,
                    _instances, made >>

\* every driver was connected by its constructor, one after the other: the
\* drivers themselves, then the modules each discovered
InitShared ==
    /\ connection = [d \in Drivers |-> d]
    /\ nsess = NDrivers
    /\ objs = [i \in 1..(NDrivers * (1 + Len(_init_modules(CatText).mods))) |->
                  IF i <= NDrivers THEN RootObj
                  ELSE _init_modules(CatText).mods[
                           ((i - NDrivers - 1) % Len(_init_modules(CatText).mods)) + 1]]
    /\ modules = [d \in Drivers |->
                     ModulesAt(NDrivers + (d - 1) * Len(_init_modules(CatText).mods),
                               Len(_init_modules(CatText).mods))]
    /\ closed = {}
    /\ lockOwner = 0
    /\ lockCount = 0
    /\ inbuf = [d \in Drivers |-> <<>>]
    /\ outbuf = [d \in Drivers |-> <<>>]
    /\ dev = DevInit
    /\ th = [t \in Threads |-> Idle]
    /\ nops = 0
    /\ lastEv = <<>>
    /\ origin = <<>>
    /\ preDisc = {}
    /\ focus = {"shared"}
    /\ _instances = <<>>
    /\ made = <<>>

NextShared ==
    \/ \E t \in Threads, d \in Drivers : SharedCall(t, d)
    \/ \E t \in Threads : SharedSend(t)
    \/ \E t \in Threads, d \in Drivers : SharedConnect(t, d)
    \/ \E t \in Threads : SharedOpen(t)
    \/ \E t \in Threads : SharedInit(t)
    \/ \E t \in Threads : SharedRecv(t)
    \/ \E t \in Threads : SharedTimeout(t)
    \/ \E t \in Threads, d \in Drivers : SharedDisconnect(t, d)
    \/ \E t \in Threads : SharedClose(t)
    \/ \E d \in Drivers : SharedAnswer(d)

SpecShared == InitShared /\ [][NextShared]_vars

(* ------------------------------------------------------------------ *)
(* MercuryITCFactory, called from several threads                       *)
(* ------------------------------------------------------------------ *)
NAddr == 3

\* the drivers the calls of a run can construct, numbered in the order their
\* constructors begin; connection, modules, inbuf and outbuf are kept per driver
Made == 1..MaxOps

\* MercuryITCFactory(a), up to the test `args[0] in cls._instances`: the
\* stored driver is returned, or the thread goes on to construct one
FactoryCall(t, a) ==
    /\ CanStart(t)
    /\ "factory" \in focus
    /\ th' = [th EXCEPT ![t] =
                 IF a \in DOMAIN _instances
                 THEN [Fin(Rec("factory", 0, "", a, FALSE, <<>>)) EXCEPT
                          !.status = "ok", !.ret = _instances[a]]
                 ELSE [Rec("factory", 0, "", a, FALSE, <<>>) EXCEPT !.pc = "construct"]]
    /\ nops' = nops + 1
    /\ UNCHANGED << connection, nsess, closed, modules, objs, lockOwner, lockCount,
                    inbuf, outbuf, dev, lastEv, origin, preDisc, focus,
                    _instances, made >>

\* instance = MercuryITC(*args): __init__ calls connect(), in which
\* rm.open_resource raises; the exception is caught, connection stays None
\* and the driver has no modules attribute
FactoryConnectFail(t) ==
    /\ th[t].pc = "construct"
    /\ CanAcquire(t)
    /\ made' = Append(made, th[t].val)
    /\ objs' = Append(objs, RootObj)
    /\ th' = [th EXCEPT ![t] = [@ EXCEPT !.pc = "made", !.obj = Len(made) + 1,
                                         !.caught = "open"]]
    /\ UNCHANGED << connection, nsess, closed, modules, lockOwner, lockCount,
                    inbuf, outbuf, dev, nops, lastEv, origin, preDisc, focus,
                    _instances >>

\* instance = MercuryITC(*args): __init__ calls connect(), which is let in by
\* the lock and opens the session
FactoryConnectOpen(t) ==
    /\ th[t].pc = "construct"
    /\ CanAcquire(t)
    /\ Acquire(t)
    /\ made' = Append(made, th[t].val)
    /\ objs' = Append(objs, RootObj)
    /\ nsess' = nsess + 1
    /\ connection' = [connection EXCEPT ![Len(made) + 1] = nsess + 1]
    /\ th' = [th EXCEPT ![t] = [@ EXCEPT !.pc = "init", !.obj = Len(made) + 1]]
    /\ UNCHANGED << closed, modules, inbuf, outbuf, dev, nops, lastEv, origin, preDisc,
                    focus, _instances >>

\* _init_modules in the constructor empties self.modules; the query of
\* self.cat comes to the lock connect() holds, is let in, and writes the
\* catalogue request
FactoryConnectInit(t) ==
    /\ th[t].pc = "init"
    /\ CanAcquire(t)
    /\ Acquire(t)
    /\ modules' = [modules EXCEPT ![th[t].obj] = ModuleList(<<>>)]
    /\ inbuf' = [inbuf EXCEPT ![th[t].obj] = << CatRequest(t) >>]
    /\ th' = [th EXCEPT ![t] = [@ EXCEPT !.pc = "sent", !.nx = 1]]
    /\ UNCHANGED << connection, nsess, closed, objs, outbuf, dev, nops, lastEv, origin,
                    preDisc, focus, _instances, made >>

\* the catalogue arrives in the constructor: _init_modules builds the modules
\* (an exception in it is caught by connect(), which sets connection = None),
\* the lock is released
FactoryConnectRecv(t) ==
    /\ th[t].pc = "sent"
    /\ outbuf[th[t].obj] # <<>>
    /\ outbuf' = [outbuf EXCEPT ![th[t].obj] = <<>>]
    /\ objs' = objs \o _init_modules(Head(outbuf[th[t].obj]).line).mods
    /\ modules' = [modules EXCEPT ![th[t].obj] =
           ModulesAt(Len(objs), Len(_init_modules(Head(outbuf[th[t].obj]).line).mods))]
    /\ connection' = [connection EXCEPT ![th[t].obj] =
           IF _init_modules(Head(outbuf[th[t].obj]).line).ok THEN @ ELSE 0]
    /\ Release(t, 2)
    /\ th' = [th EXCEPT ![t] = [@ EXCEPT !.pc = "made",
                 !.caught = IF _init_modules(Head(outbuf[th[t].obj]).line).ok
                            THEN "none" ELSE "discovery"]]
    /\ UNCHANGED << nsess, closed, inbuf, dev, nops, lastEv, origin, preDisc, focus,
                    _instances, made >>

\* the catalogue query of the constructor times out: caught by connect(),
\* connection = None, the lock is released
FactoryConnectTimeout(t) ==
    /\ th[t].pc = "sent"
    /\ outbuf[th[t].obj] = <<>>
    /\ connection' = [connection EXCEPT ![th[t].obj] = 0]
    /\ inbuf' = [inbuf EXCEPT ![th[t].obj] = <<>>]
    /\ Release(t, 2)
    /\ th' = [th EXCEPT ![t] = [@ EXCEPT !.pc = "made", !.caught = "timeout"]]
    /\ UNCHANGED << nsess, closed, modules, objs, outbuf, dev, nops, lastEv,
                    origin, preDisc, focus, _instances, made >>

\* cls._instances[args[0]] = instance; return instance
FactoryStore(t) ==
    /\ th[t].pc = "made"
    /\ _instances' = Put(_instances, th[t].val, th[t].obj)
    /\ th' = [th EXCEPT ![t] = [Fin(th[t]) EXCEPT !.status = "ok", !.ret = th[t].obj]]
    /\ UNCHANGED << connection, nsess, closed, modules, objs, lockOwner, lockCount,
                    inbuf, outbuf, dev, nops, lastEv, origin, preDisc, focus, made >>

\* no driver has been made yet
InitFactory ==
    /\ connection = [d \in Made |-> 0]
    /\ nsess = 0
    /\ objs = <<>>
    /\ modules = [d \in Made |-> NoModules]
    /\ closed = {}
    /\ lockOwner = 0
    /\ lockCount = 0
    /\ inbuf = [d \in Made |-> <<>>]
    /\ outbuf = [d \in Made |-> <<>>]
    /\ dev = DevInit
    /\ th = [t \in Threads |-> Idle]
    /\ nops = 0
    /\ lastEv = <<>>
    /\ origin = <<>>
    /\ preDisc = {}
    /\ focus = {"factory"}
    /\ _instances = <<>>
    /\ made = <<>>

NextFactory ==
    \/ \E t \in Threads, a \in 1..NAddr : FactoryCall(t, a)
    \/ \E t \in Threads : FactoryConnectFail(t)
    \/ \E t \in Threads : FactoryConnectOpen(t)
    \/ \E t \in Threads : FactoryConnectInit(t)
    \/ \E t \in Threads : FactoryConnectRecv(t)
    \/ \E t \in Threads : FactoryConnectTimeout(t)
    \/ \E t \in Threads : FactoryStore(t)
    \/ \E d \in Made : SharedAnswer(d)

SpecFactory == InitFactory /\ [][NextFactory]_vars

(* ------------------------------------------------------------------ *)
(* Properties                                                           *)
(* ------------------------------------------------------------------ *)
\* thread t's last call was of this kind and has returned or raised
Finished(t, kind) == th[t].pc = "done" /\ th[t].kind = kind

AllObjs == 1..Len(objs)

\* the key the call of rec reads or writes
KeyOf(rec) == << rec.obj, Getter(rec.prop).name >>

\* C1: a cacheable attribute read on an object whose last access was a
\* completed read of the same attribute (no write, delete or clear_cache of it
\* since) is served from the cache with no exchange; when that earlier read
\* queried the device the two reads issue exactly one exchange in total.
C1_SecondReadFromCache ==
    \A t \in Threads :
        (/\ Finished(t, "get")
         /\ Getter(th[t].prop).cached
         /\ th[t].prev.ev = "read")
        => /\ th[t].status = "ok"
           /\ th[t].hit
           /\ th[t].nx = 0
           /\ th[t].prev.miss => th[t].prev.nx + th[t].nx = 1

\* a module's cacheable attribute read twice: first from the device, then from
\* the cache
C1_Witness ==
    \E t \in Threads :
        /\ Finished(t, "get")
        /\ th[t].obj > 1
        /\ Getter(th[t].prop).cached
        /\ th[t].prev.ev = "read" /\ th[t].prev.miss /\ th[t].prev.nx = 1
        /\ th[t].nx = 0
        /\ th[t].ret = th[t].prev.val

\* C2: at most one thread is between sending its request line and
\* receiving its response line, over attribute reads, attribute writes and
\* catalogue reads on the root and the modules.
C2_OneExchangeInFlight ==
    Cardinality({t \in Threads : th[t].pc = "sent"}) <= 1

\* one thread's exchange is in flight while another thread waits to send
C2_Witness ==
    \E t, u \in Threads :
        /\ th[t].pc = "sent" /\ th[t].kind \in {"get", "set", "cat"}
        /\ th[u].pc = "call"

\* C3: a caller of the public read() that follows its own write(q) receives
\* the response to its own request, whatever other threads do in between.
C3_ReadAnswersOwnWrite ==
    \A t \in Threads :
        (Finished(t, "read") /\ th[t].same /\ th[t].status = "ok")
        => th[t].recv.by = t

\* the SET of the call was answered by the device with a token other than VALID
SetRefused(t) ==
    /\ Finished(t, "set")
    /\ th[t].nset = 1
    /\ th[t].recv.ans = "invalid"

\* what a setter reads, and caches, to validate the value
PreReads(rec) ==
    CASE rec.prop = "volt" -> {<< rec.obj, nVLIM >>}
      [] rec.prop = "loop_htr" -> {<< o, nNICK >> : o \in {h \in AllObjs : objs[h].cls = "HTR"}}
      [] rec.prop = "loop_aux" -> {<< o, nNICK >> : o \in {a \in AllObjs : objs[a].cls = "AUX"}}
      [] rec.prop = "powr" -> {<< rec.obj, nPMAX >>}
      [] OTHER -> {}

\* C4 as stated: a write whose SET the device refuses fails and has changed
\* nothing in the cache of the written object.
C4_RefusedLeavesObjectCache ==
    \A t \in Threads :
        SetRefused(t)
        => /\ th[t].status = "rejected"
           /\ {k \in th[t].stored : k[1] = th[t].obj} = {}

\* C4 amended: a write whose SET the device refuses fails, has stored nothing
\* under the written name, and has stored nothing but what its setter read to
\* validate the value before the SET.
C4_RefusedLeavesWrittenEntry ==
    \A t \in Threads :
        SetRefused(t)
        => /\ th[t].status = "rejected"
           /\ KeyOf(th[t]) \notin th[t].stored
           /\ th[t].stored \subseteq PreReads(th[t])

\* a heater's volt refused by the device after its setter read and cached VLIM
C4_Witness ==
    \E t \in Threads :
        /\ SetRefused(t)
        /\ th[t].status = "rejected"
        /\ th[t].prop = "volt"
        /\ th[t].stored = {<< th[t].obj, nVLIM >>}

\* the documented allowed set of an enumerated-string attribute
Documented(p) ==
    CASE p = "type" -> {<<"P","T","C">>, <<"N","T","C">>, <<"D","D","E">>, <<"T","C","E">>}
      [] p = "exct_type" -> {<<"U","N","I","P">>, <<"B","I","P">>, <<"S","O","F","T">>}
      [] p = "cal_int" -> {<<"L","I","N">>, <<"S","P","L">>, <<"L","A","G","R">>}
      [] p = "dima" -> {sON, sOFF}

\* lo <= v <= hi, False for nan
InRange(v, lo, hi) == FloatLeq(lo, v) /\ FloatLeq(v, hi)

\* the value is outside the range or the allowed set the attribute documents,
\* for the attributes whose check needs nothing from the instrument
FailsOwnCheck(rec) ==
    \/ rec.prop \in {"dima", "type", "exct_type", "cal_int"}
          /\ rec.val \notin Documented(rec.prop)
    \/ rec.prop \in {"loop_pidt", "loop_enab", "loop_faut", "loop_rena"}
          /\ rec.val \notin {sON, sOFF}
    \/ rec.prop = "res" /\ ~InRange(rec.val, Num(20), Num(100))
    \/ rec.prop = "vlim" /\ ~InRange(rec.val, Num(0), Num(40))
    \/ rec.prop = "cal_scal" /\ ~InRange(rec.val, Hundredths(50), Hundredths(150))
    \/ rec.prop = "cal_offs" /\ ~InRange(rec.val, Num(-100), Num(100))
    \/ rec.prop \in {"loop_fset", "loop_hset", "brig"} /\ ~InRange(rec.val, Num(0), Num(100))
    \/ rec.prop = "gfsf" /\ ~InRange(rec.val, Num(0), Num(99))
    \/ rec.prop \in {"tes", "tves"} /\ ~InRange(rec.val, Num(0), Num(20))
    \/ rec.prop = "gmin" /\ ~FloatLt(Num(1), rec.val)
    \/ rec.prop = "gear" /\ rec.val \notin 0..7
    \/ rec.prop = "spd" /\ rec.val \notin {0, 1, 2}
    \/ rec.prop = "dimt" /\ rec.val < 0

\* C5: a write whose value fails its attribute's range or allowed-set check
\* raises the validation error, and a write that raises the validation error
\* has issued no exchange, READ or SET, and stored nothing in any cache.
C5_ValidationNoExchange ==
    \A t \in Threads :
        Finished(t, "set")
        => /\ FailsOwnCheck(th[t]) => th[t].status = "validation"
           /\ th[t].status = "validation" => th[t].nx = 0 /\ th[t].stored = {}

\* what the getter of p makes of the value it reads
Returned(p, value) ==
    GetReturn(p, Getter(p).scaled, value, convert_scaled_values(value))

\* the conversion of the value text the device confirmed in the write before
\* the call of rec
ConfirmedBefore(rec) == Convert(Getter(rec.prop).conv, rec.prev.conf).v

\* C6: a cacheable attribute read when the last access of it was a
\* successful write returns the value the device confirmed in the write's
\* response (as the attribute's getter returns it), and issues no exchange.
C6_ReadReturnsConfirmed ==
    \A t \in Threads :
        (/\ Finished(t, "get")
         /\ Getter(th[t].prop).cached
         /\ th[t].prev.ev = "write")
        => /\ th[t].nx = 0
           /\ IF Returned(th[t].prop, ConfirmedBefore(th[t])).do = "return"
              THEN /\ th[t].status = "ok"
                   /\ th[t].ret = Returned(th[t].prop, ConfirmedBefore(th[t])).ret
              ELSE th[t].status = "convert"

\* the device confirmed another value than the caller wrote, and the read
\* returned the device's
C6_Witness ==
    \E t \in Threads :
        /\ Finished(t, "get")
        /\ th[t].prop = "res"
        /\ th[t].prev.ev = "write"
        /\ th[t].ret # th[t].prev.asked
        /\ th[t].ret = th[t].prev.val

\* C7: a read of an attribute whose last access was its delete issues one
\* exchange, whether or not the delete found an entry (a disconnected driver
\* raises instead); a delete never fails.
C7_ReadAfterDeleteQueries ==
    \A t \in Threads :
        /\ (/\ Finished(t, "get")
            /\ th[t].prev.ev = "del"
            /\ th[t].status # "ConnectionError")
           => th[t].nx = 1 /\ ~th[t].hit
        /\ Finished(t, "del") => th[t].status = "ok"

\* an attribute never cached is deleted, then read from the device
C7_Witness ==
    \E t \in Threads :
        /\ Finished(t, "get")
        /\ th[t].prev.ev = "del" /\ ~th[t].prev.had
        /\ th[t].status = "ok"
        /\ th[t].nx = 1

\* C8: every read of a signal attribute issues one exchange (a
\* disconnected driver raises instead), and no cache holds a signal's name.
C8_SignalsAlwaysQueried ==
    /\ \A t \in Threads :
           (/\ Finished(t, "get")
            /\ th[t].prop \in SignalProps
            /\ th[t].status # "ConnectionError")
           => th[t].nx = 1 /\ ~th[t].hit
    /\ \A o \in AllObjs : DOMAIN objs[o].cache \cap SignalNames = {}

\* a signal read again right after it was read or written
C8_Witness ==
    \E t \in Threads :
        /\ Finished(t, "get")
        /\ th[t].prop \in SignalProps
        /\ th[t].prev.ev \in {"read", "write"}
        /\ th[t].status = "ok"
        /\ th[t].nx = 1

Max(S) == CHOOSE x \in S : \A y \in S : y <= x

Colons(line) == {i \in 1..Len(line) : line[i] = ":"}

\* the value text of a response line: after the last colon of a READ's
\* answer, between the last two colons of a SET's
ValueText(line, how) ==
    IF how = "read"
    THEN SubSeq(line, Max(Colons(line)) + 1, Len(line))
    ELSE SubSeq(line, Max(Colons(line) \ {Max(Colons(line))}) + 1, Max(Colons(line)) - 1)

\* the convert function of the cacheable attribute of this protocol name
ConvOfName(n) ==
    Getter(CHOOSE p \in UNION {PropsOf(c) : c \in {"SYS", "HTR", "TEMP", "AUX"}} :
               Getter(p).cached /\ Getter(p).name = n).conv

\* C9: every cache entry was stored by an exchange whose request named
\* the entry's own object and name and which completed without error, and holds
\* the conversion of the value text of the response received in it; a read or
\* write that failed has stored nothing under its name.
C9_CacheFromExchange ==
    /\ \A o \in AllObjs : \A n \in DOMAIN objs[o].cache :
           /\ << o, n >> \in DOMAIN origin
           /\ origin[<< o, n >>].q = << objs[o].address, n >>
           /\ origin[<< o, n >>].how = "set"
              => SubSeq(origin[<< o, n >>].line, Max(Colons(origin[<< o, n >>].line)) + 1,
                        Len(origin[<< o, n >>].line)) = sVALID
           /\ objs[o].cache[n]
                = Convert(ConvOfName(n),
                          ValueText(origin[<< o, n >>].line, origin[<< o, n >>].how)).v
    /\ \A t \in Threads :
           (/\ th[t].pc = "done"
            /\ th[t].kind \in {"get", "set"}
            /\ th[t].status \notin {"ok", "validation"})
           => KeyOf(th[t]) \notin th[t].stored

\* C10: once connect() has completed after a disconnect(), everything the
\* root and the modules of driver.modules held cached at the disconnect is
\* still cached there (unless deleted or cleared since).
C10_CacheSurvivesReconnect ==
    (/\ connection # 0
     /\ \A t \in Threads : ~(th[t].kind = "connect" /\ th[t].pc # "done"))
    => preDisc \subseteq ReachCached

\* a thread is inside a `with self._lock` block: its exchange is in flight, or
\* it is in connect() between opening the session and the catalogue query
InLockBlock(t) == th[t].pc \in {"sent", "init"}

\* C11: the lock is held only by a thread inside one of the lock's blocks:
\* once a call has returned or raised, a transport timeout included, its
\* thread holds the lock no more (nor does a thread waiting for the lock or
\* working on the cache), and the lock is free whenever no thread is inside a
\* block.
C11_LockReleasedOnReturn ==
    /\ \A t \in Threads : ~InLockBlock(t) => lockOwner # t
    /\ (lockOwner = 0) = (lockCount = 0)
    /\ (\A t \in Threads : ~InLockBlock(t)) => lockOwner = 0

\* a call ended in a timeout and another thread's exchange now holds the lock
C11_Witness ==
    \E t, u \in Threads :
        /\ th[t].pc = "done" /\ th[t].status = "Timeout"
        /\ th[u].pc = "sent" /\ lockOwner = u

\* C12: a timed-out exchange leaves nothing behind for the next one: the
\* response line an exchange receives is never the late response to a request
\* whose exchange has ended in a timeout.
C12_NoLateResponse ==
    \A t \in Threads :
        th[t].kind \in {"get", "set", "cat"} => ~th[t].recv.late

\* C13: every transport session the driver has opened is its current
\* connection or has been closed; so whenever the driver is disconnected,
\* after disconnect() or after a connect() that failed at any step, all the
\* sessions it opened are closed.
C13_SessionsClosed ==
    \A s \in 1..nsess : s = connection \/ s \in closed

\* C14: every error reaches the caller: a connect() in which opening the
\* session, the catalogue query or discovery failed ends with an error
\* outcome, not with a normal return.
C14_ConnectErrorSurfaced ==
    \A t \in Threads :
        (Finished(t, "connect") /\ th[t].caught # "none") => th[t].status # "ok"

\* the entries of the catalogue the instrument holds
Catalogue == CHOOSE E \in CatInputs : CatOf(E) = dev[<< sSYS, nCAT >>]

\* the class a known class token stands for
TokenClass(k) == IF k = sTEMP THEN "TEMP" ELSE IF k = sAUX THEN "AUX" ELSE "HTR"

\* the entries with a class token of TEMP, AUX or HTR, in catalogue order
KnownEntries(E) == SelectSeq(E, LAMBDA e : e.token \in {sTEMP, sAUX, sHTR})

\* C15: after a connect() the driver's module list has exactly one module per
\* catalogue entry whose class token is TEMP, AUX or HTR, of the matching
\* class and at that entry's address, in catalogue order; entries with another
\* class token add no module and do not make discovery fail.
C15_DiscoveryByClassToken ==
    \A t \in Threads :
        (Finished(t, "connect") /\ lockOwner = 0 /\ th[t].recv.by = t)
        => /\ th[t].caught = "none"
           /\ connection # 0
           /\ modules.has
           /\ Len(modules.list) = Len(KnownEntries(Catalogue))
           /\ \A i \in 1..Len(modules.list) :
                 /\ objs[modules.list[i]].cls = TokenClass(KnownEntries(Catalogue)[i].token)
                 /\ objs[modules.list[i]].address
                      = sDEVpre \o KnownEntries(Catalogue)[i].uid \o Colon
                        \o KnownEntries(Catalogue)[i].token

\* discovery over a catalogue with an unknown class token between two known
\* ones yields the two modules
C15_Witness ==
    \E t \in Threads :
        /\ Finished(t, "connect") /\ lockOwner = 0 /\ th[t].recv.by = t
        /\ Len(Catalogue) = 3
        /\ Catalogue[1].token = sHTR
        /\ Catalogue[2].token \notin {sTEMP, sAUX, sHTR}
        /\ Catalogue[3].token = sAUX
        /\ Len(modules.list) = 2
        /\ objs[modules.list[2]].cls = "AUX"

\* C16: a write of a heater's res that reaches the range check on a connected
\* driver sends a SET exactly when 20 <= value <= 100; a value outside fails
\* with the validation error and no exchange at all.
C16_ResSetIffInRange ==
    \A t \in Threads :
        (Finished(t, "set") /\ th[t].prop = "res" /\ th[t].status # "ConnectionError")
        => /\ (th[t].nset = 1) = (FloatLeq(Num(20), th[t].val) /\ FloatLeq(th[t].val, Num(100)))
           /\ ~(FloatLeq(Num(20), th[t].val) /\ FloatLeq(th[t].val, Num(100)))
              => (th[t].status = "validation" /\ th[t].nx = 0)

\* C17: a write of type, exct_type, cal_int or dima issued on a connected
\* driver with a value other than the cached object sends a SET exactly when
\* the value is in the attribute's own documented set, and otherwise fails
\* with the validation error and no exchange.
C17_EnumSetIffDocumented ==
    \A t \in Threads :
        (/\ Finished(t, "set")
         /\ th[t].prop \in {"type", "exct_type", "cal_int", "dima"}
         /\ th[t].status # "ConnectionError"
         /\ ~th[t].same)
        => /\ (th[t].nset = 1) = (th[t].val \in Documented(th[t].prop))
           /\ th[t].val \notin Documented(th[t].prop)
              => (th[t].status = "validation" /\ th[t].nx = 0)

\* C18: a write of a heater's powr that found the power sense line reading
\* N/A has sent no SET, and the error it raises is of another kind than the
\* error of a value out of range.
C18_DryErrorDistinct ==
    \A t \in Threads :
        (Finished(t, "set") /\ th[t].prop = "powr" /\ th[t].status = "dry")
        => /\ th[t].nset = 0
           /\ Raised(th[t].status) # Raised("validation")

\* the numbers of the colon-separated fields of a text
FieldsOf(s) == [i \in 1..Len(split(s, Colon, -1)) |-> StrToNat(split(s, Colon, -1)[i])]

\* the widths of the colon-separated fields of a text
WidthsOf(s) == [i \in 1..Len(split(s, Colon, -1)) |-> Len(split(s, Colon, -1)[i])]

\* hour 0..23, minute and second 0..59
TimeInRange(f) == Len(f) = 3 /\ f[1] \in 0..23 /\ f[2] \in 0..59 /\ f[3] \in 0..59

\* month 1..12, day 1..31
DateInRange(f) == Len(f) = 3 /\ f[2] \in 1..12 /\ f[3] \in 1..31

\* C19: a SET of the driver's time or date is on the wire only for a value
\* whose fields are in range (hour 0..23, minute and second 0..59; month
\* 1..12, day 1..31) and carries those fields zero-padded as hh:mm:ss or
\* yyyy:mm:dd; a write with a field out of range raises the validation error
\* with nothing sent.
C19_TimeDateChecked ==
    /\ \A i \in 1..Len(inbuf) :
          (inbuf[i].verb = "SET" /\ inbuf[i].name \in {nTIME, nDATE})
          => /\ FieldsOf(inbuf[i].val) = FieldsOf(th[inbuf[i].by].val)
             /\ inbuf[i].name = nTIME
                => TimeInRange(FieldsOf(inbuf[i].val)) /\ WidthsOf(inbuf[i].val) = << 2, 2, 2 >>
             /\ inbuf[i].name = nDATE
                => DateInRange(FieldsOf(inbuf[i].val)) /\ WidthsOf(inbuf[i].val) = << 4, 2, 2 >>
    /\ \A t \in Threads :
          (/\ Finished(t, "set") /\ th[t].prop \in {"time", "date"}
           /\ th[t].status # "ConnectionError"
           /\ Len(FieldsOf(th[t].val)) = 3
           /\ ~(IF th[t].prop = "time" THEN TimeInRange(FieldsOf(th[t].val))
                ELSE DateInRange(FieldsOf(th[t].val))))
          => th[t].status = "validation" /\ th[t].nx = 0

\* C20: in every interleaving of factory calls at most one MercuryITC is
\* constructed per address, and two calls with the same address return the
\* same driver.
C20_OneDriverPerAddress ==
    /\ \A a \in 1..NAddr : Cardinality({i \in 1..Len(made) : made[i] = a}) <= 1
    /\ \A t, u \in Threads :
          (Finished(t, "factory") /\ Finished(u, "factory") /\ th[t].val = th[u].val)
          => th[t].ret = th[u].ret

\* C21: a write of a heater's volt that was accepted or refused on its range
\* has read VLIM from the device in that very write: the bound it used is not
\* a value cached by an earlier read or write.
C21_VoltReadsVlimEachWrite ==
    \A t \in Threads :
        (/\ Finished(t, "set") /\ th[t].prop = "volt"
         /\ th[t].status \in {"ok", "validation", "rejected"})
        => /\ << th[t].obj, nVLIM >> \in th[t].stored
           /\ th[t].nx - th[t].nset >= 1

\* C22: a write of a cacheable attribute that returns normally has performed
\* exactly one SET and stored the value the device confirmed under the written
\* name, also when the value written is the very object the cache held.
C22_ValidWriteSetsOnce ==
    \A t \in Threads :
        (Finished(t, "set") /\ SetterCached(th[t].prop) /\ th[t].status = "ok")
        => /\ th[t].nset = 1
           /\ KeyOf(th[t]) \in th[t].stored
           /\ Getter(th[t].prop).conv = "str" => th[t].tostore = th[t].recv.conf

\* the length of the maximal leading run of digits and points of a text
LeadRun(s) ==
    Max({k \in 0..Len(s) : \A i \in 1..k : s[i] \in {"0","1","2","3","4","5","6","7","8","9","."}})

\* the text the temperature sensor's SIG:TEMP reads, after an optional sign
SigText == IF dev[<< aT1, nSIGTEMP >>] # <<>> /\ dev[<< aT1, nSIGTEMP >>][1] \in {"-", "+"}
           THEN Tail(dev[<< aT1, nSIGTEMP >>]) ELSE dev[<< aT1, nSIGTEMP >>]

\* C23: a signal read whose value text starts (after an optional sign) with a
\* digit returns as magnitude the maximal leading run of digits and points of
\* the text (where that run is a number) and as unit exactly the rest of the
\* text, also when the unit contains digits; a text with no digit at all makes
\* the read fail with an error.
C23_SplitsLeadingRun ==
    \A t \in Threads :
        (Finished(t, "get") /\ th[t].prop = "temp")
        => /\ (/\ SigText # <<>> /\ IsDigit(SigText[1])
               /\ ParseFloat(SubSeq(SigText, 1, LeadRun(SigText))).ok)
              => /\ th[t].status = "ok"
                 /\ th[t].ret = << ParseFloat(SubSeq(SigText, 1, LeadRun(SigText))).v,
                                   SubSeq(SigText, LeadRun(SigText) + 1, Len(SigText)) >>
           /\ (\A i \in 1..Len(SigText) : ~IsDigit(SigText[i])) => th[t].status # "ok"

\* C24: when a read of a cacheable attribute that missed the cache and a
\* write of the same attribute by another thread have both completed, each
\* having received the answer to its own request, the value cached for the
\* attribute is the value the device holds.
C24_CacheCoherentAfterRace ==
    \A t, u \in Threads :
        (/\ Finished(t, "get") /\ Getter(th[t].prop).cached /\ th[t].status = "ok"
         /\ ~th[t].hit /\ th[t].recv.by = t /\ ~th[t].recv.late
         /\ Finished(u, "set") /\ th[u].status = "ok" /\ th[u].nset = 1
         /\ th[u].recv.by = u /\ ~th[u].recv.late
         /\ KeyOf(th[u]) = KeyOf(th[t])
         /\ KeyOf(th[t])[2] \in DOMAIN objs[th[t].obj].cache)
        => objs[th[t].obj].cache[KeyOf(th[t])[2]]
           = Convert(Getter(th[t].prop).conv,
                     dev[<< objs[th[t].obj].address, KeyOf(th[t])[2] >>]).v

\* where a thread's call stands, for telling a step of the call
CallState(rec) ==
    << rec.pc, rec.kind, rec.obj, rec.prop, rec.same, rec.nx, rec.nset, rec.status,
       rec.hit, rec.skipped >>

\* every cache holds after the step what it held before it
CachesUnchanged ==
    /\ DOMAIN objs' = DOMAIN objs
    /\ \A o \in DOMAIN objs :
           /\ DOMAIN objs'[o].cache = DOMAIN objs[o].cache
           /\ \A n \in DOMAIN objs[o].cache : objs'[o].cache[n] = objs[o].cache[n]

\* the call returned what the attribute's getter makes of the cached value, or
\* raised because the getter cannot convert it
FromCache(rec, value) ==
    IF Returned(rec.prop, value).do = "return"
    THEN rec.status = "ok" /\ rec.ret = Returned(rec.prop, value).ret
    ELSE rec.status = "convert"

\* the calls that make no exchange: a read of rst or of connected, and rst
\* set to a false value
NeedsNoExchange(rec) ==
    \/ rec.kind = "get" /\ rec.prop \in {"rst", "connected"}
    \/ rec.kind = "set" /\ rec.prop = "rst" /\ rec.val = FALSE

\* what a step of thread t's attribute or catalogue call does when it is
\* taken on a disconnected driver
DisconnectedStep(t) ==
    (/\ connection = 0
     /\ CallState(th'[t]) # CallState(th[t])
     /\ th[t].pc \in {"done", "call", "test"}
     /\ th'[t].kind \in {"get", "set", "cat"})
    => /\ inbuf' = inbuf /\ outbuf' = outbuf
       /\ CachesUnchanged
       /\ th'[t].pc \in {"done", "call", "test"}
       /\ th'[t].pc = "done"
          => \/ th'[t].status = "ConnectionError"
             \/ /\ th'[t].kind = "get" /\ th'[t].hit
                /\ FromCache(th'[t], objs[th'[t].obj].cache[Getter(th'[t].prop).name])
             \/ /\ th'[t].kind = "set"
                /\ th'[t].status \in {"validation", "convert", "unpack"}
             \/ NeedsNoExchange(th'[t]) /\ th'[t].status = "ok"

\* C25: on a disconnected driver a call that needs an exchange (an uncached
\* attribute read, a signal read, a catalogue read, a write of a valid value)
\* raises the connection error with nothing sent and no cache changed, and a
\* read of a cached attribute returns the cached value.
C25_DisconnectedCallsFail == [][\A t \in Threads : DisconnectedStep(t)]_vars

\* thread u has sent a request line and not received its response line: it is
\* inside query(), connect()'s catalogue query or read(), or its write(q) has
\* returned and its read() is still to come
InFlight(u) ==
    \/ th[u].pc = "sent"
    \/ th[u].pc = "done" /\ th[u].kind = "write" /\ th[u].status = "ok"

\* connect() standing before the with self._lock of its catalogue query is
\* let in by the lock it holds
ConnectPassesOwnLock ==
    \A t \in Threads : th[t].pc = "init" => lockOwner = t /\ CanAcquire(t)

\* under fair scheduling every call that has begun, waiting for the lock or
\* not, returns or raises
EveryCallEnds == \A t \in Threads : (th[t].pc # "done") ~> (th[t].pc = "done")

\* disconnect() closes the session only while no thread is inside query(),
\* connect()'s catalogue query or read()
ClosedOutsideQueries == [][closed' # closed => \A u \in Threads : th[u].pc # "sent"]_vars

\* C26: connect() never blocks on itself: where it comes to the lock a second
\* time, for its catalogue query, the lock lets it in; under fair scheduling
\* every call that has begun (connect, disconnect, a property access, cat,
\* write(q), read()) is let in by the lock and returns or raises; and
\* disconnect() closes the session only while no other thread has sent a
\* request whose response it has not received yet.
C26_LockProgress ==
    /\ []ConnectPassesOwnLock
    /\ EveryCallEnds
    /\ [][closed' # closed => \A u \in Threads : ~InFlight(u)]_vars

\* C27: the lock is one for all drivers: at most one thread has an exchange in
\* flight, whichever the drivers, and it holds the lock; while it does, no
\* waiting call is let in, on any driver; once the lock is free every waiting
\* call can go on.
C27_OneExchangeAcrossDrivers ==
    /\ Cardinality({t \in Threads : th[t].pc = "sent"}) <= 1
    /\ \A t \in Threads : th[t].pc = "sent" => lockOwner = t /\ lockCount = Depth(th[t])
    /\ \A t, u \in Threads :
           (th[t].pc = "sent" /\ th[u].pc = "call") => ~ENABLED SharedEnter(u)
    /\ \A u \in Threads :
           (lockOwner = 0 /\ th[u].pc = "call") => ENABLED SharedEnter(u)

\* one thread's exchange is in flight on one driver while the other thread
\* waits in a call on another driver, whose own transport is idle
C27_Witness ==
    \E t, u \in Threads :
        /\ th[t].pc = "sent" /\ th[u].pc = "call"
        /\ th[t].obj # th[u].obj
        /\ connection[th[u].obj] # 0
        /\ inbuf[th[u].obj] = <<>> /\ outbuf[th[u].obj] = <<>>

====
